---- MODULE Spec2Model ----
(***************************************************************************)
(* Model of the POSIX storage driver of reva: the scan debouncer, the      *)
(* scan dispatcher, assimilation, the id-cache warmup                      *)
(* (pkg/storage/fs/posix/tree/assimilation.go) and the trashbin            *)
(* (pkg/storage/fs/posix/trashbin/trashbin.go).                            *)
(*                                                                         *)
(* One space "s" is modelled, with a small fixed universe of paths.  The   *)
(* file system maps every path to an entry (existence, content, mtime,     *)
(* extended attributes).  The id cache is a pair of maps.  Collaborators   *)
(* whose code is not part of the sources (the lookup, the id cache, the    *)
(* metadata backend, Propagate) follow their contract in the               *)
(* specification document.                                                 *)
(***************************************************************************)
EXTENDS Integers, Sequences, FiniteSets, TLC

\* ------------------------------------------------------------------ bounds
MaxOps == 3        \* number of out-of-band changes / API calls in a run
MaxContent == 2    \* file contents are 0..MaxContent
MaxCalls == 2
MaxTrash == 1
MaxThreads == 3    \* threads that call the debouncer or run a timer callback
MaxNest == 1       \* calls of the debouncer that one run of f makes
MaxUploads == 3     \* uploads to the node that are started
MaxChunks == 2      \* chunks of a blob, as io.Copy reads them
MaxItems == 1       \* SpecApi: nodes that can be moved to the trash
MaxApiCalls == 3    \* SpecApi: calls that are started
MaxFires == 3      \* SpecDeb: number of Debounce calls per path
MaxWalks == 2      \* SpecWalk: number of WarmupIDCache calls

\* ------------------------------------------------------------------ paths
Root == "s"
NoPath == ""
DirPaths == {"s", "s/a"}
FilePaths == {"s/a/f", "s/a/g", "s/h"}
Paths == DirPaths \cup FilePaths

\* filepath.Dir
Dir(p) ==
  CASE p = "s/a" -> "s"
    [] p = "s/h" -> "s"
    [] p = "s/a/f" -> "s/a"
    [] p = "s/a/g" -> "s/a"
    [] OTHER -> NoPath

\* filepath.Base
Base(p) ==
  CASE p = "s" -> "s"
    [] p = "s/a" -> "a"
    [] p = "s/h" -> "h"
    [] p = "s/a/f" -> "f"
    [] p = "s/a/g" -> "g"
    [] OTHER -> ""

IsDirPath(p) == p \in DirPaths

\* p lies in the subtree rooted at r (r included)
Under(p, r) == p = r \/ Dir(p) = r \/ (Dir(p) # NoPath /\ Dir(Dir(p)) = r)

\* the order in which filepath.Walk visits the paths: lexical, parents first
WalkOrder == <<"s", "s/a", "s/a/f", "s/a/g", "s/h">>

\* ------------------------------------------------------------------ values
SpaceID == 1       \* the id of the space root is the space id
NoId == 0

Contents == 0..MaxContent
\* the size of a file with content c (two contents may have the same size)
Size(c) == (c + 1) \div 2
\* node.CalculateChecksums: a digest of the content (0 is "no checksum")
Checksum(c) == c + 1

\* blobid: 0 if unset; updateFile writes a fresh uuid, here the number of blobids
\* the file has been given
NoXa == [id |-> NoId, parentid |-> NoId, name |-> "", type |-> "",
         blobid |-> 0, blobsize |-> -1, cs |-> 0, mtime |-> -1, treesize |-> -1,
         propagation |-> FALSE, dirty |-> ""]

\* was: the ids this file has carried after an assimilation (history)
NoEntry == [ex |-> FALSE, content |-> 0, mtime |-> 0, xa |-> NoXa, was |-> {}]

Put(f, k, v) == [x \in (DOMAIN f) \cup {k} |-> IF x = k THEN v ELSE f[x]]
Del(f, k) == [x \in (DOMAIN f) \ {k} |-> f[x]]

Max(a, b) == IF a > b THEN a ELSE b

VARIABLES
  fs,       \* [Paths -> entry]: the POSIX tree with its xattrs
  fwd,      \* id cache: id -> path
  rev,      \* id cache: path -> id
  pending,  \* ScanDebouncer.pending, per path
  bg,       \* started goroutines that have not run yet: task -> count
  ev,       \* published events, in order
  nid,      \* the next fresh uuid
  ops,      \* out-of-band changes and API calls made so far
  trash,    \* .Trash/files: key -> entry
  tinfo,    \* .Trash/info: key -> original relative path
  nkey,     \* the next fresh trash key
  last,     \* history: the last operation and what its assimilate calls did
  deb,      \* SpecDeb: the debouncer at the granularity of its statements
  wk,       \* SpecLock: the scan workers at the granularity of the lock
  up,       \* SpecRev: a node, its revisions and the uploads that overwrite it
  api       \* SpecApi: the trash of a space and the calls that work on it

treeVars == <<fs, fwd, rev, pending, bg, ev, nid, ops, trash, tinfo, nkey, last, up, api>>
vars == <<fs, fwd, rev, pending, bg, ev, nid, ops, trash, tinfo, nkey, last, deb, wk, up,
          api>>

\* The part of the state the tree operations work on, as one record.
TreeState == [fs |-> fs, fwd |-> fwd, rev |-> rev, bg |-> bg, ev |-> ev,
              nid |-> nid, log |-> <<>>]

\* ------------------------------------------------------------------ lookup, id cache
\* Lookup.CacheID: stores both directions
CacheID(st, id, path) ==
  [st EXCEPT !.fwd = Put(st.fwd, id, path), !.rev = Put(st.rev, path, id)]

\* Lookup.GetCachedID
HasCachedID(st, id) == id \in DOMAIN st.fwd
GetCachedID(st, id) == IF id \in DOMAIN st.fwd THEN st.fwd[id] ELSE NoPath

\* IDCache.DeletePath: removes only the reverse entry
DeletePath(st, path) == [st EXCEPT !.rev = Del(st.rev, path)]

\* IDCache.DeleteByPath: removes the entry pair of the path and of the paths below it
DeleteByPath(st, path) ==
  LET gone == {p \in DOMAIN st.rev : Under(p, path)}
      ids == {st.rev[p] : p \in gone}
  IN [st EXCEPT !.rev = [p \in (DOMAIN st.rev) \ gone |-> st.rev[p]],
                !.fwd = [i \in (DOMAIN st.fwd) \ ids |-> st.fwd[i]]]

Exists(st, path) == path \in Paths /\ st.fs[path].ex

\* MetadataBackend.IdentifyPath: the id xattr of the path ("" when unset)
IdentifyPath(st, path) == st.fs[path].xa.id

\* Lookup.IDsForPath: the cached id of the path; on a miss the id xattr; fails
\* (NoId) when the path has no id
IDsForPath(st, path) ==
  IF path \in DOMAIN st.rev THEN st.rev[path]
  ELSE IF Exists(st, path) THEN st.fs[path].xa.id
  ELSE NoId

\* Lookup.InternalPath of a node (POSIX driver): the cached path of its id
InternalPath(st, id) == GetCachedID(st, id)

\* MetadataBackend.All of the node with the given id
NodeAttrs(st, id) ==
  IF Exists(st, InternalPath(st, id)) THEN st.fs[InternalPath(st, id)].xa ELSE NoXa

\* MetadataBackend.Purge of the metadata stored at a path: removes the user.oc.* xattrs
Purge(st, path) ==
  IF Exists(st, path) THEN [st EXCEPT !.fs[path].xa = NoXa] ELSE st

\* xattr.Set(path, dirtyFlag, ...); fails when the path does not exist
setDirty(st, path, dirty) ==
  IF Exists(st, path)
  THEN [st EXCEPT !.fs[path].xa.dirty = IF dirty THEN "true" ELSE "false"]
  ELSE st

\* an unset flag counts as dirty
isDirty(st, path) == st.fs[path].xa.dirty # "false"

PublishEvent(st, e) == [st EXCEPT !.ev = Append(st.ev, e)]

\* a goroutine started with "go": it runs at some later time
Tasks == [kind : {"assimilate", "warmup"}, path : Paths]
Spawn(st, task) == [st EXCEPT !.bg[task] = @ + 1]

Note(st, rec) == [st EXCEPT !.log = Append(st.log, rec)]

\* Tree.Propagate(n, sizeDiff): adds sizeDiff to the treesize of every ancestor
\* of the node, following the parentid links up to the space root
RECURSIVE PropagateFrom(_, _, _, _)
PropagateFrom(st, pid, sizeDiff, fuel) ==
  LET pp == InternalPath(st, pid)
  IN IF fuel = 0 \/ pid = NoId \/ ~Exists(st, pp) THEN st
     ELSE LET old == Max(st.fs[pp].xa.treesize, 0)
              st1 == [st EXCEPT !.fs[pp].xa.treesize = Max(old + sizeDiff, 0)]
          IN IF pid = SpaceID THEN st1
             ELSE PropagateFrom(st1, st.fs[pp].xa.parentid, sizeDiff, fuel - 1)

Propagate(st, parentID, sizeDiff) ==
  IF sizeDiff = 0 THEN st ELSE PropagateFrom(st, parentID, sizeDiff, 3)

\* ------------------------------------------------------------------ assimilation
\* Tree.findSpaceId: walks the ancestors until one has ids
RECURSIVE findSpaceId(_, _)
findSpaceId(st, path) ==
  IF path = NoPath THEN NoId
  ELSE IF IDsForPath(st, path) # NoId THEN SpaceID
  ELSE findSpaceId(st, Dir(path))

\* MetadataBackend.Get(n, ParentidAttr) in assimilate: the parentid stored in the
\* metadata of the node being assimilated, as written by the previous assimilation
PreviousParentID(st, path) == st.fs[path].xa.parentid

\* one entry of the history of an operation: what an assimilate call found and did
Rec(path, branch, id, prev, ok, qxa) ==
  [path |-> path, branch |-> branch, id |-> id, prev |-> prev, ok |-> ok, qxa |-> qxa]

\* updateFile, lines 568-611: the attributes written for the entry e at path
fileAttributes(e, path, id, parentID) ==
  IF IsDirPath(path)
  THEN [e.xa EXCEPT !.id = id, !.name = Base(path),
                    !.parentid = IF parentID # NoId THEN parentID ELSE @,
                    !.mtime = e.mtime, !.type = "container",
                    !.treesize = IF @ # -1 THEN @ ELSE 0,
                    !.propagation = TRUE]
  ELSE [e.xa EXCEPT !.id = id, !.name = Base(path),
                    !.parentid = IF parentID # NoId THEN parentID ELSE @,
                    !.mtime = e.mtime, !.type = "file", !.blobid = @ + 1,
                    !.blobsize = Size(e.content), !.cs = Checksum(e.content)]

\* updateFile, lines 562-677: stat, checksums, attributes, Propagate(n, 0),
\* SetMultiple, CacheID
writeAttributes(st, path, id, parentID) ==
  IF ~Exists(st, path) THEN [st |-> st, ok |-> FALSE, parentID |-> NoId]
  ELSE [st |-> CacheID([Propagate(st, parentID, 0) EXCEPT
                          !.fs[path].xa = fileAttributes(st.fs[path], path, id, parentID),
                          !.fs[path].was = @ \cup {id}],
                       id, path),
        ok |-> TRUE, parentID |-> parentID]

RECURSIVE assimilate(_, _)
RECURSIVE updateFile(_, _, _, _)

\* updateFile, lines 549-557: the parent has been assimilated; retry
retryUpdateFile(r, path, id, retries) ==
  IF r.err THEN [st |-> r.st, ok |-> FALSE, parentID |-> NoId]
  ELSE updateFile(r.st, path, id, retries - 1)

\* updateFile, lines 539-544: the parent node has no attributes or no id attribute
parentUnassimilated(st, path) ==
  NodeAttrs(st, IDsForPath(st, Dir(path))).id = NoId

\* Tree.updateFile
updateFile(st, path, id, retries) ==
  IF id # SpaceID /\ IDsForPath(st, Dir(path)) = NoId
  THEN [st |-> st, ok |-> FALSE, parentID |-> NoId]       \* failed to read parent id
  ELSE IF id # SpaceID /\ parentUnassimilated(st, path)
  THEN IF retries = 0
       THEN [st |-> st, ok |-> FALSE, parentID |-> NoId]
       ELSE retryUpdateFile(assimilate(st, Dir(path)), path, id, retries)
  ELSE writeAttributes(st, path, id,
                       IF id = SpaceID THEN NoId
                       ELSE NodeAttrs(st, IDsForPath(st, Dir(path))).id)

\* the event published for a new entry
CreationEvent(st, path, id) ==
  [type |-> IF IsDirPath(path) THEN "ContainerCreated"
            ELSE IF Size(st.fs[path].content) = 0 THEN "FileTouched"
            ELSE "UploadReady",
   id |-> id, path |-> path]

\* assimilate, lines 402-416: the id of path is cached for another, existing path
assimilateClash(st, path, id, previousPath) ==
  [st |-> Note(Spawn(Purge(st, path), [kind |-> "assimilate", path |-> path]),
               Rec(path, "clash", id, previousPath, TRUE, st.fs[previousPath].xa)),
   err |-> FALSE]

\* assimilate, lines 402-416, when Purge returns an error: the error is logged and
\* the goroutine started all the same
assimilateClashUnpurged(st, path, id, previousPath) ==
  [st |-> Note(Spawn(st, [kind |-> "assimilate", path |-> path]),
               Rec(path, "clash", id, previousPath, TRUE, st.fs[previousPath].xa)),
   err |-> FALSE]

\* assimilate, lines 386-404: the call for the path takes the branch of the id clash
Clashes(st, path) ==
  /\ findSpaceId(st, path) # NoId /\ Exists(st, path)
  /\ IdentifyPath(st, path) # NoId
  /\ ~(/\ GetCachedID(st, IdentifyPath(st, path)) = path
       /\ st.fs[path].xa.mtime = st.fs[path].mtime)
  /\ HasCachedID(st, IdentifyPath(st, path)) /\ PreviousParentID(st, path) # NoId
  /\ GetCachedID(st, IdentifyPath(st, path)) # path
  /\ Exists(st, GetCachedID(st, IdentifyPath(st, path)))

\* assimilate, lines 435-441: the children of a moved directory are rescanned
moveWarmup(st, path) ==
  IF IsDirPath(path) THEN Spawn(st, [kind |-> "warmup", path |-> path]) ELSE st

\* assimilate, lines 443-469
moveEvent(st, path, id, parentID) ==
  IF parentID # NoId
  THEN PublishEvent(st, [type |-> "ItemMoved", id |-> id, path |-> path])
  ELSE st

\* assimilate, lines 424-470: after updateFile returned u
moveDetected(u, path, id, previousPath) ==
  IF ~u.ok
  THEN [st |-> Note(u.st, Rec(path, "move", id, previousPath, FALSE, NoXa)), err |-> TRUE]
  ELSE [st |-> Note(moveEvent(moveWarmup(DeletePath(u.st, previousPath), path),
                              path, id, u.parentID),
                    Rec(path, "move", id, previousPath, TRUE, NoXa)),
        err |-> FALSE]

\* assimilate, lines 417-470: the cached path of the id is gone
assimilateMove(st, path, id, previousPath) ==
  moveDetected(updateFile(CacheID(st, id, path), path, id, 1), path, id, previousPath)

\* assimilate, lines 478-481: after updateFile returned u
updated(u, path, id, previousPath) ==
  [st |-> Note(u.st, Rec(path, "update", id, previousPath, u.ok, NoXa)), err |-> ~u.ok]

\* assimilate, lines 471-482: known id, same path or no usable previous path
assimilateUpdate(st, path, id, previousPath) ==
  updated(updateFile(CacheID(st, id, path), path, id, 1), path, id, previousPath)

\* newEntry without the PublishEvent of lines 498-522
newEntrySilent(u, path, newId) ==
  IF ~u.ok
  THEN [st |-> Note(u.st, Rec(path, "new", newId, NoPath, FALSE, NoXa)), err |-> TRUE]
  ELSE [st |-> Note([u.st EXCEPT !.nid = newId + 1],
                    Rec(path, "new", newId, NoPath, TRUE, NoXa)),
        err |-> FALSE]

\* assimilate, lines 488-523: after updateFile returned u for the minted id
newEntry(u, path, newId) ==
  IF ~u.ok
  THEN [st |-> Note(u.st, Rec(path, "new", newId, NoPath, FALSE, NoXa)), err |-> TRUE]
  ELSE [st |-> Note(PublishEvent([u.st EXCEPT !.nid = newId + 1],
                                 CreationEvent(u.st, path, newId)),
                    Rec(path, "new", newId, NoPath, TRUE, NoXa)),
        err |-> FALSE]

\* assimilate, lines 483-523: no id yet; uuid.New() is the next unused id
assimilateNew(st, path) ==
  newEntry(updateFile(st, path, st.nid, 1), path, st.nid)

\* assimilate without the comparison of lines 395-400: an entry with an id is always
\* taken through the clash, move or update branch
assimilateNoFastPath(st, path, id) ==
  IF findSpaceId(st, path) = NoId \/ ~Exists(st, path)
  THEN [st |-> Note(st, Rec(path, "error", NoId, NoPath, FALSE, NoXa)), err |-> TRUE]
  ELSE IF id = NoId THEN assimilateNew(st, path)
  ELSE IF HasCachedID(st, id) /\ PreviousParentID(st, path) # NoId
          /\ GetCachedID(st, id) # path
  THEN IF Exists(st, GetCachedID(st, id))
       THEN assimilateClash(st, path, id, GetCachedID(st, id))
       ELSE assimilateMove(st, path, id, GetCachedID(st, id))
  ELSE assimilateUpdate(st, path, id, GetCachedID(st, id))

\* assimilate, lines 356-523, for the id that IdentifyPath returned at line 381
assimilateAs(st, path, id) ==
  IF findSpaceId(st, path) = NoId \/ ~Exists(st, path)
  THEN [st |-> Note(st, Rec(path, "error", NoId, NoPath, FALSE, NoXa)), err |-> TRUE]
  ELSE
    LET previousPath == GetCachedID(st, id)
    IN IF id = NoId THEN assimilateNew(st, path)
       ELSE IF previousPath = path /\ st.fs[path].xa.mtime = st.fs[path].mtime
       THEN [st |-> Note(st, Rec(path, "fast", id, previousPath, TRUE, NoXa)),
             err |-> FALSE]
       ELSE IF HasCachedID(st, id) /\ PreviousParentID(st, path) # NoId
               /\ previousPath # path
       THEN IF Exists(st, previousPath)
            THEN assimilateClash(st, path, id, previousPath)
            ELSE assimilateMove(st, path, id, previousPath)
       ELSE assimilateUpdate(st, path, id, previousPath)

\* Tree.assimilate, run under the metadata lock of the path
assimilate(st, path) == assimilateAs(st, path, IdentifyPath(st, path))

\* ------------------------------------------------------------------ warmup
\* the directories strictly above path, up to and including root
DirsAbove(path, root) ==
  {d \in DirPaths : d # path /\ Under(path, d) /\ Under(d, root)}

AddSize(sizes, d, n) == Put(sizes, d, (IF d \in DOMAIN sizes THEN sizes[d] ELSE 0) + n)

RECURSIVE AddSizes(_, _, _)
AddSizes(sizes, ds, n) ==
  IF ds = {} THEN sizes
  ELSE AddSizes(AddSize(sizes, CHOOSE x \in ds : TRUE, n),
                ds \ {CHOOSE x \in ds : TRUE}, n)

\* WarmupIDCache, lines 770-773: the id of the walked path is cached for another
\* path that still exists
walkClash(st, path) ==
  /\ IdentifyPath(st, path) # NoId
  /\ HasCachedID(st, IdentifyPath(st, path))
  /\ GetCachedID(st, IdentifyPath(st, path)) # path
  /\ Exists(st, GetCachedID(st, IdentifyPath(st, path)))

\* WarmupIDCache, lines 774-778 and 784-788: the walk calls assimilate for an entry
\* whose id clashes and, when asked to assimilate, for an entry without id
walkAssimilate(st, path, doAssimilate) ==
  IF walkClash(st, path) \/ (IdentifyPath(st, path) = NoId /\ doAssimilate)
  THEN assimilate(IF walkClash(st, path)
                  THEN Note(st, Rec(path, "walkclash", IdentifyPath(st, path),
                                    GetCachedID(st, IdentifyPath(st, path)), TRUE,
                                    st.fs[GetCachedID(st, IdentifyPath(st, path))].xa))
                  ELSE st,
                  path).st
  ELSE st

\* WarmupIDCache, lines 780-783: CacheID with the id read at line 733, whether or
\* not the clash branch ran
walkCache(st, id, path) == IF id # NoId THEN CacheID(st, id, path) ELSE st

\* WarmupIDCache, lines 733-789: one walked entry
WalkIdentify(st, path, doAssimilate) ==
  setDirty(walkCache(walkAssimilate(st, path, doAssimilate), IdentifyPath(st, path), path),
           path, FALSE)

\* WarmupIDCache, lines 716-727: the size of a file is added to its ancestors; a
\* directory of a dirty-only walk is entered with size 0
walkSizes(w, path, root, onlyDirty) ==
  IF ~IsDirPath(path)
  THEN AddSizes(w.sizes, DirsAbove(path, root), Size(w.st.fs[path].content))
  ELSE IF onlyDirty THEN AddSize(w.sizes, path, 0)
  ELSE w.sizes

\* the callback of filepath.Walk for the i-th path of the walk order
RECURSIVE Walk(_, _, _, _, _)
Walk(w, root, doAssimilate, onlyDirty, i) ==
  IF i > Len(WalkOrder) THEN w
  ELSE IF ~(/\ Under(WalkOrder[i], root)
            /\ Exists(w.st, WalkOrder[i])
            /\ \A d \in w.skip : ~Under(WalkOrder[i], d))
  THEN Walk(w, root, doAssimilate, onlyDirty, i + 1)
  ELSE Walk(IF IsDirPath(WalkOrder[i]) /\ onlyDirty /\ ~isDirty(w.st, WalkOrder[i])
            THEN [w EXCEPT !.skip = @ \cup {WalkOrder[i]}]
            ELSE [w EXCEPT !.sizes = walkSizes(w, WalkOrder[i], root, onlyDirty),
                           !.st = WalkIdentify(w.st, WalkOrder[i], doAssimilate)],
            root, doAssimilate, onlyDirty, i + 1)

\* WarmupIDCache, lines 792-812: one directory of the sizes map
WriteTreesize(st, dir, size, root) ==
  LET np == InternalPath(st, IDsForPath(st, dir))
  IN IF IDsForPath(st, dir) = NoId \/ ~Exists(st, np) THEN st
     ELSE [(IF dir = root /\ st.fs[np].xa.treesize # -1
            THEN Propagate(st, st.fs[np].xa.parentid, size - st.fs[np].xa.treesize)
            ELSE st)
           EXCEPT !.fs[np].xa.treesize = size]

RECURSIVE WriteTreesizes(_, _, _, _)
WriteTreesizes(st, sizes, ds, root) ==
  IF ds = {} THEN st
  ELSE WriteTreesizes(WriteTreesize(st, CHOOSE x \in ds : TRUE,
                                    sizes[CHOOSE x \in ds : TRUE], root),
                      sizes, ds \ {CHOOSE x \in ds : TRUE}, root)

\* WarmupIDCache, lines 792-812: the sizes collected by the walk are written
writeSizes(w, root) == WriteTreesizes(w.st, w.sizes, DOMAIN w.sizes, root)

\* Tree.WarmupIDCache
WarmupIDCache(st, root, doAssimilate, onlyDirty) ==
  writeSizes(Walk([st |-> st, sizes |-> << >>, skip |-> {}],
                  root, doAssimilate, onlyDirty, 1),
             root)

\* the steps of the callback of the walk that can fail for an entry
WalkSteps == {"isDirty", "scopeSpace", "assimilate", "CacheID", "setDirty"}
NoFailure == [path |-> NoPath, step |-> ""]

\* WarmupIDCache, lines 733-789, for an entry at which the given step fails: the state
\* after the callback, and whether the callback returns the error.  scopeSpace is
\* called for an entry with an id (lines 734-738); an error of assimilate or of
\* CacheID is logged (lines 776, 780-782, 785-787); the error of setDirty is returned
walkEntry(st, path, doAssimilate, step) ==
  CASE step = "scopeSpace" /\ IdentifyPath(st, path) # NoId ->
         [st |-> st, err |-> TRUE]
    [] step = "assimilate" ->
         [st |-> setDirty(walkCache(st, IdentifyPath(st, path), path), path, FALSE),
          err |-> FALSE]
    [] step = "CacheID" ->
         [st |-> setDirty(walkAssimilate(st, path, doAssimilate), path, FALSE),
          err |-> FALSE]
    [] step = "setDirty" ->
         [st |-> walkCache(walkAssimilate(st, path, doAssimilate),
                           IdentifyPath(st, path), path),
          err |-> TRUE]
    [] OTHER ->
         [st |-> WalkIdentify(st, path, doAssimilate), err |-> FALSE]

\* the step that fails for the path, "" for none
FailingStep(fail, path) == IF fail.path = path THEN fail.step ELSE ""

\* the walk w after the callback for the path has run with the result r
walked(w, r, path, root, onlyDirty) ==
  [w EXCEPT !.sizes = walkSizes(w, path, root, onlyDirty), !.st = r.st, !.err = r.err,
            !.seen = @ \cup {path}]

\* the callback of filepath.Walk for the i-th path of the walk order, where one step
\* fails for one entry; filepath.Walk stops at the first error the callback returns
RECURSIVE WalkFailing(_, _, _, _, _, _)
WalkFailing(w, root, doAssimilate, onlyDirty, i, fail) ==
  IF i > Len(WalkOrder) \/ w.err THEN w
  ELSE IF ~(/\ Under(WalkOrder[i], root)
            /\ Exists(w.st, WalkOrder[i])
            /\ \A d \in w.skip : ~Under(WalkOrder[i], d))
  THEN WalkFailing(w, root, doAssimilate, onlyDirty, i + 1, fail)
  ELSE WalkFailing(IF /\ IsDirPath(WalkOrder[i]) /\ onlyDirty
                      /\ FailingStep(fail, WalkOrder[i]) = "isDirty"
                   THEN [w EXCEPT !.err = TRUE, !.seen = @ \cup {WalkOrder[i]}]
                   ELSE IF IsDirPath(WalkOrder[i]) /\ onlyDirty /\ ~isDirty(w.st, WalkOrder[i])
                   THEN [w EXCEPT !.skip = @ \cup {WalkOrder[i]}]
                   ELSE walked(w, walkEntry(w.st, WalkOrder[i], doAssimilate,
                                            FailingStep(fail, WalkOrder[i])),
                               WalkOrder[i], root, onlyDirty),
                   root, doAssimilate, onlyDirty, i + 1, fail)

\* the walk of WarmupIDCache(root, assimilate, onlyDirty) with the failure
WarmupWalk(st, root, doAssimilate, onlyDirty, fail) ==
  WalkFailing([st |-> st, sizes |-> << >>, skip |-> {}, seen |-> {}, err |-> FALSE],
              root, doAssimilate, onlyDirty, 1, fail)

\* ------------------------------------------------------------------ debouncer (D > 0)
NoPending == [on |-> FALSE, iforce |-> FALSE, irecurse |-> FALSE,
              force |-> FALSE, recurse |-> FALSE]

\* ScanDebouncer.Debounce, lines 109-145: the flags of the timer closure are merged
\* with the item stored in the pending entry; the new entry stores the item as given
Debounce(pend, path, force, recurse) ==
  [pend EXCEPT ![path] =
     [on |-> TRUE, iforce |-> force, irecurse |-> recurse,
      force |-> force \/ (pend[path].on /\ pend[path].iforce),
      recurse |-> recurse \/ (pend[path].on /\ pend[path].irecurse)]]

\* ScanDebouncer.InProgress; between two operations of this specification no run of
\* f is active, so only the pending map counts
InProgress(pend, path) == path \in Paths /\ pend[path].on

\* ------------------------------------------------------------------ scan dispatch
\* HandleFileDelete, line 285: Purge of the node with the given id
purgeNode(st, id) == Purge(st, InternalPath(st, id))

\* HandleFileDelete, lines 289-312: the parent is looked up and ItemTrashed published
deleted(st, id, path) ==
  IF \/ IDsForPath(st, Dir(path)) = NoId
     \/ ~Exists(st, InternalPath(st, IDsForPath(st, Dir(path))))
  THEN [st |-> st, err |-> TRUE]
  ELSE [st |-> PublishEvent(st, [type |-> "ItemTrashed", id |-> id, path |-> path]),
        err |-> FALSE]

\* Tree.HandleFileDelete
HandleFileDelete(st, path) ==
  IF IDsForPath(st, path) = NoId THEN [st |-> st, err |-> TRUE]
  ELSE deleted(purgeNode(DeleteByPath(st, path), IDsForPath(st, path)),
               IDsForPath(st, path), path)

\* Scan, case ActionCreate, without the InProgress check of line 193: the new file is
\* always debounced
ScanCreateUnchecked(st, pend, path, isDir) ==
  IF ~isDir
  THEN IF ~Exists(st, Dir(path))
       THEN [st |-> st, pend |-> Debounce(pend, path, FALSE, FALSE), err |-> TRUE]
       ELSE [st |-> setDirty(st, Dir(path), TRUE),
             pend |-> Debounce(Debounce(pend, path, FALSE, FALSE), Dir(path), TRUE, TRUE),
             err |-> FALSE]
  ELSE IF ~Exists(st, path) THEN [st |-> st, pend |-> pend, err |-> TRUE]
       ELSE [st |-> setDirty(st, path, TRUE),
             pend |-> Debounce(pend, path, TRUE, TRUE), err |-> FALSE]

\* Tree.Scan, case ActionCreate
ScanCreate(st, pend, path, isDir) ==
  IF ~isDir
  THEN LET pend1 == IF ~InProgress(pend, Dir(path))
                    THEN Debounce(pend, path, FALSE, FALSE)
                    ELSE pend
       IN IF ~Exists(st, Dir(path)) THEN [st |-> st, pend |-> pend1, err |-> TRUE]
          ELSE [st |-> setDirty(st, Dir(path), TRUE),
                pend |-> Debounce(pend1, Dir(path), TRUE, TRUE), err |-> FALSE]
  ELSE IF ~Exists(st, path) THEN [st |-> st, pend |-> pend, err |-> TRUE]
       ELSE [st |-> setDirty(st, path, TRUE),
             pend |-> Debounce(pend, path, TRUE, TRUE), err |-> FALSE]

\* Scan, case ActionUpdate, without the InProgress check of line 224
ScanUpdateUnchecked(st, pend, path) ==
  [st |-> st, pend |-> Debounce(pend, path, TRUE, FALSE), err |-> FALSE]

\* Tree.Scan, case ActionUpdate
ScanUpdate(st, pend, path) ==
  [st |-> st,
   pend |-> IF ~InProgress(pend, Dir(path)) THEN Debounce(pend, path, TRUE, FALSE)
            ELSE pend,
   err |-> FALSE]

\* Tree.Scan, case ActionMove
ScanMove(st, pend, path, isDir) ==
  [st |-> st, pend |-> Debounce(pend, path, isDir, isDir), err |-> FALSE]

\* Tree.Scan, case ActionMoveFrom
ScanMoveFrom(st, pend, path) ==
  IF ~Exists(st, Dir(path)) THEN [st |-> st, pend |-> pend, err |-> TRUE]
  ELSE [st |-> Spawn(setDirty(st, Dir(path), TRUE), [kind |-> "warmup", path |-> Dir(path)]),
        pend |-> pend, err |-> FALSE]

\* Scan, lines 259-268: the parent of a deleted entry is rescanned
rescanParent(r, pend, path) ==
  IF r.err THEN [st |-> r.st, pend |-> pend, err |-> TRUE]
  ELSE [st |-> r.st, pend |-> Debounce(pend, Dir(path), TRUE, TRUE), err |-> FALSE]

\* Tree.Scan, case ActionDelete
ScanDelete(st, pend, path) == rescanParent(HandleFileDelete(st, path), pend, path)

\* Tree.Scan
Scan(st, pend, path, action, isDir) ==
  CASE action = "ActionCreate" -> ScanCreate(st, pend, path, isDir)
    [] action = "ActionUpdate" -> ScanUpdate(st, pend, path)
    [] action = "ActionMove" -> ScanMove(st, pend, path, isDir)
    [] action = "ActionMoveFrom" -> ScanMoveFrom(st, pend, path)
    [] action = "ActionDelete" -> ScanDelete(st, pend, path)

\* workScanQueue, lines 171-177: a recursive item has its subtree walked
warmupItem(r, path, recurse) ==
  IF ~r.err /\ recurse THEN WarmupIDCache(r.st, path, TRUE, FALSE) ELSE r.st

\* Tree.workScanQueue: one item taken from the scan queue
WorkItem(st, path, recurse) == warmupItem(assimilate(st, path), path, recurse)

\* ------------------------------------------------------------------ trashbin
\* relativePath values that denote the trash item itself
RelSelf == {".", "/", ""}

\* MoveToTrash, lines 177-178: os.Rename into .Trash/files
trashItem(st, tr, ti, key, path) ==
  [st |-> [st EXCEPT !.fs[path] = NoEntry, !.fs[Dir(path)].mtime = @ + 1],
   tr |-> Put(tr, key, st.fs[path]),
   ti |-> ti]

\* Trashbin.MoveToTrash(n, path): n is the node with the given id.  Returns the
\* tree state, .Trash/files and .Trash/info.
MoveToTrash(st, tr, ti, key, id, path) ==
  trashItem(purgeNode(DeleteByPath(st, path), id), tr, Put(ti, key, path), key, path)

\* RestoreRecycleItem without the Set of parentid of lines 291-295
restoreItemSameParent(st, item, parentID, restorePath, cached) ==
  IF cached
  THEN CacheID([st EXCEPT !.fs[restorePath] = item,
                          !.fs[Dir(restorePath)].mtime = @ + 1],
               item.xa.id, restorePath)
  ELSE [st EXCEPT !.fs[restorePath] = item,
                  !.fs[Dir(restorePath)].mtime = @ + 1]

\* RestoreRecycleItem, lines 292-303: parentid is set on the trash item, the item
\* is renamed to restorePath, and (unless cached is FALSE) the id is cached
restoreItem(st, item, parentID, restorePath, cached) ==
  IF cached
  THEN CacheID([st EXCEPT !.fs[restorePath] = [item EXCEPT !.xa.parentid = parentID],
                          !.fs[Dir(restorePath)].mtime = @ + 1],
               item.xa.id, restorePath)
  ELSE [st EXCEPT !.fs[restorePath] = [item EXCEPT !.xa.parentid = parentID],
                  !.fs[Dir(restorePath)].mtime = @ + 1]

\* RestoreRecycleItem without the CacheID of line 303
RestoreRecycleItemUncached(st, tr, ti, key, rel, restorePath) ==
  IF \/ key \notin DOMAIN tr
     \/ ~Exists(st, Dir(restorePath))
     \/ IdentifyPath(st, Dir(restorePath)) = NoId
  THEN [st |-> st, tr |-> tr, ti |-> ti, err |-> TRUE]
  ELSE [st |-> restoreItem(st, tr[key], IdentifyPath(st, Dir(restorePath)),
                           restorePath, FALSE),
        tr |-> Del(tr, key),
        ti |-> IF rel = "." \/ rel = "/" THEN Del(ti, key) ELSE ti,
        err |-> (rel = "." \/ rel = "/") /\ key \notin DOMAIN ti]

\* Trashbin.RestoreRecycleItem(spaceID, key, relativePath, restoreRef) for a
\* relativePath that denotes the item itself; restorePath is the path restoreRef
\* resolves to.  The sidecar is removed only for relativePath "." and "/".
RestoreRecycleItem(st, tr, ti, key, rel, restorePath) ==
  IF \/ key \notin DOMAIN tr
     \/ ~Exists(st, Dir(restorePath))
     \/ IdentifyPath(st, Dir(restorePath)) = NoId
  THEN [st |-> st, tr |-> tr, ti |-> ti, err |-> TRUE]
  ELSE [st |-> restoreItem(st, tr[key], IdentifyPath(st, Dir(restorePath)),
                           restorePath, TRUE),
        tr |-> Del(tr, key),
        ti |-> IF rel = "." \/ rel = "/" THEN Del(ti, key) ELSE ti,
        err |-> (rel = "." \/ rel = "/") /\ key \notin DOMAIN ti]

\* ------------------------------------------------------------------ the system
\* what MoveToTrash found: the attributes and content of the entry, and whether the
\* reverse entry of the id cache for the path named the id of the node
NoSnap == [xa |-> NoXa, content |-> 0, path |-> NoPath, cached |-> FALSE]
Last(op, path, log) ==
  [op |-> op, path |-> path, log |-> log, key |-> 0, pre |-> NoSnap,
   direct |-> FALSE, err |-> FALSE, ev0 |-> 0]

\* the paths the debouncer is called for
DebPaths == {"s/a", "s/h"}

NoQueueItem == [on |-> FALSE, force |-> FALSE, recurse |-> FALSE, timer |-> 0]

\* NewScanDebouncer with a delay d.after > 0.
\*   pend: the pending map, path -> queueItem (the item as stored, and its timer)
\*   tm: the timers made by time.AfterFunc, each with the variables its closure
\*       captured (path, force, recurse); armed: the timers that will fire
\*   gor: the goroutines started for fired timers, each at a statement of the
\*        callback of lines 124-144
\*   inProgress: the inProgress map;  runs: the calls of f, in order;  calls: the
\*        number of Debounce calls made before each of them
\*   after: the delay;  mutex: the thread that holds d.mutex (0: free);  thr: the
\*        threads that run Debounce, InProgress or a timer callback, lock by lock
InitDeb ==
  [pend |-> [p \in DebPaths |-> NoQueueItem],
   tm |-> << >>, armed |-> << >>, gor |-> << >>,
   inProgress |-> [p \in DebPaths |-> FALSE],
   runs |-> << >>, calls |-> << >>,
   after |-> 1, mutex |-> 0, thr |-> << >>]

\* the goroutines of workScanQueue (MaxConcurrency = 2)
Workers == {1, 2}

\* a worker that waits for an item.  item, recurse: the scanItem taken; at, top:
\* the path of the assimilate call in progress and whether workScanQueue made it
\* (otherwise the warmup walk did); seen: the id of the path when the call was
\* entered; id: the id read under the lock; i, wid, sizes: the position of the
\* warmup walk, the id it read for the walked entry, and its sizes map; names: the
\* entries that filepath.Walk has read and not visited yet; assimilate, onlyDirty:
\* the arguments of the WarmupIDCache call
IdleProc ==
  [pc |-> "idle", item |-> NoPath, recurse |-> FALSE, at |-> NoPath, top |-> FALSE,
   seen |-> NoId, id |-> NoId, i |-> 0, wid |-> NoId, sizes |-> << >>,
   names |-> {}, assimilate |-> FALSE, onlyDirty |-> FALSE]

\* lock: the holder of the metadata lock of each path (0: free); races: the paths
\* for which two calls that found no id were in progress at the same time; walks:
\* the WarmupIDCache calls made; visited: the entries for which the callback of a
\* walk has run without pruning them
InitWk ==
  [proc |-> [w \in Workers |-> IdleProc],
   lock |-> [p \in Paths |-> 0],
   races |-> {}, walks |-> 0, visited |-> {}]

RootXa == [NoXa EXCEPT !.id = SpaceID, !.name = "s", !.type = "container",
                       !.mtime = 1, !.treesize = 0, !.propagation = TRUE,
                       !.dirty = "false"]

\* A space whose root has been created and assimilated; nothing else exists.
\* ------------------------------------------------------------------ revisions: values
\* the content of a blob, chunk by chunk
Blobs == UNION {[1..n -> 1..2] : n \in 1..MaxChunks}

\* node.CalculateChecksums of a blob (0 is "no checksum")
RECURSIVE BlobChecksum(_)
BlobChecksum(b) == IF b = << >> THEN 1 ELSE 3 * BlobChecksum(Tail(b)) + Head(b)

\* the uploads that overwrite the node concurrently
Uploads == {1, 2}

\* the attributes an upload writes to the node for the blob b with mtime m
BlobAttrs(xa, b, m) ==
  [xa EXCEPT !.type = "file", !.blobid = @ + 1, !.blobsize = Len(b),
             !.cs = BlobChecksum(b), !.mtime = m]

\* a revision file: NoRevision when it does not exist
NoRevision == [ex |-> FALSE, content |-> << >>, xa |-> NoXa]

\* a call: t is the timestamp of the revision it creates, n the node and old the
\* revision of its key as they are when the call starts to work on them; bs is
\* n.Blobsize of the node that RestoreRevision read, was the blobsize of the node when
\* its attributes are replaced and rsize the blobsize read from the restored revision
IdleUpload == [pc |-> "idle", blob |-> << >>, t |-> 0, n |-> NoRevision, tries |-> 0,
               key |-> 0, old |-> NoRevision, fd |-> 0, bs |-> 0, was |-> 0, rsize |-> 0]

\* the node is a file with id 2 below the space root, uploaded once; treesize is
\* the treesize of the space root, its only ancestor
InitUp ==
  [node |-> [ex |-> TRUE, content |-> <<1>>,
             xa |-> BlobAttrs([NoXa EXCEPT !.id = 2, !.parentid = SpaceID, !.name = "g"],
                              <<1>>, 1)],
   revs |-> [t \in 1..(MaxUploads + 1) |-> NoRevision],
   treesize |-> 1,
   blobs |-> {1},
   nblob |-> 2,
   lockfile |-> 0,
   ninode |-> 1,
   locked |-> {},
   started |-> 0,
   proc |-> [u \in Uploads |-> IdleUpload]]

\* ------------------------------------------------------------------ permissions
\* provider.ResourcePermissions: the fields the trashbin and the revision calls read
Perms == [Stat : BOOLEAN, ListRecycle : BOOLEAN, PurgeRecycle : BOOLEAN,
          ListFileVersions : BOOLEAN, InitiateFileDownload : BOOLEAN,
          RestoreFileVersion : BOOLEAN]
NoPerms == [Stat |-> FALSE, ListRecycle |-> FALSE, PurgeRecycle |-> FALSE,
            ListFileVersions |-> FALSE, InitiateFileDownload |-> FALSE,
            RestoreFileVersion |-> FALSE]
\* what AssembleTrashPermissions and AssemblePermissions return, the fields that the
\* callers do not read left unset
TrashPerms ==
  {rp \in Perms : ~rp.ListFileVersions /\ ~rp.InitiateFileDownload /\ ~rp.RestoreFileVersion}
NodePerms == {rp \in Perms : ~rp.ListRecycle /\ ~rp.PurgeRecycle}

\* the error for a caller without the permission: PermissionDenied with Stat
Refused(rp) == IF rp.Stat THEN "PermissionDenied" ELSE "NotFound"

\* PurgeRecycleItem, lines 323-332: the error of the permission check, "" for none
PurgeRecycleItemCheck(rp) == IF ~rp.PurgeRecycle THEN Refused(rp) ELSE ""

\* EmptyRecycle, lines 355-364
EmptyRecycleCheck(rp) == IF ~rp.ListRecycle /\ ~rp.PurgeRecycle THEN Refused(rp) ELSE ""

\* ListRevisions, lines 98-108
ListRevisionsCheck(rp) == IF ~rp.ListFileVersions THEN Refused(rp) ELSE ""

\* DownloadRevision, lines 179-189
DownloadRevisionCheck(rp) ==
  IF ~rp.ListFileVersions \/ ~rp.InitiateFileDownload THEN Refused(rp) ELSE ""

\* RestoreRevision, lines 252-262
RestoreRevisionCheck(rp) == IF ~rp.RestoreFileVersion THEN Refused(rp) ELSE ""

\* getRevisionNode, lines 416-422, with the result of hasPermission(rp)
getRevisionNode(rp, hasPermission) == IF ~hasPermission THEN "PermissionDenied" ELSE ""

\* DeleteRevision, lines 378-383
DeleteRevisionCheck(rp) == getRevisionNode(rp, rp.RestoreFileVersion)

RevisionCalls == {"ListRevisions", "DownloadRevision", "RestoreRevision", "DeleteRevision"}

\* the permission check of a revision call
RevisionCheck(op, rp) ==
  CASE op = "ListRevisions" -> ListRevisionsCheck(rp)
    [] op = "DownloadRevision" -> DownloadRevisionCheck(rp)
    [] op = "RestoreRevision" -> RestoreRevisionCheck(rp)
    [] op = "DeleteRevision" -> DeleteRevisionCheck(rp)

\* ------------------------------------------------------------------ trashbin calls
Callers == {1, 2}
\* a node that can be trashed and the key of the call that trashes it
Keys == 1..MaxItems

IdleCall == [pc |-> "idle", op |-> "", key |-> 0, rel |-> "", rp |-> NoPerms]
NoRefusal == [op |-> "", rp |-> NoPerms, code |-> ""]

\* the nodes are in the tree, .Trash does not exist yet
InitApi ==
  [tree |-> Keys, used |-> {}, files |-> {}, info |-> {}, fdir |-> FALSE, idir |-> FALSE,
   calls |-> 0, refused |-> NoRefusal, proc |-> [c \in Callers |-> IdleCall]]

InitTree ==
  /\ fs = [p \in Paths |->
             IF p = Root
             THEN [ex |-> TRUE, content |-> 0, mtime |-> 1, xa |-> RootXa,
                   was |-> {SpaceID}]
             ELSE NoEntry]
  /\ fwd = (SpaceID :> Root)
  /\ rev = (Root :> SpaceID)
  /\ pending = [p \in Paths |-> NoPending]
  /\ bg = [t \in Tasks |-> 0]
  /\ ev = << >>
  /\ nid = SpaceID + 1
  /\ ops = 0
  /\ trash = [k \in {} |-> NoEntry]
  /\ tinfo = [k \in {} |-> NoPath]
  /\ nkey = 1
  /\ last = Last("init", NoPath, << >>)
  /\ up = InitUp
  /\ api = InitApi

Init == InitTree /\ deb = InitDeb /\ wk = InitWk

\* NewScanDebouncer(d, f) with d = 0 or d > 0
InitMutex ==
  /\ InitTree /\ wk = InitWk
  /\ \E d \in {0, 1} : deb = [InitDeb EXCEPT !.after = d]

\* the tree state and the pending map after an operation
CommitTree(st, pend, l) ==
  /\ fs' = st.fs
  /\ fwd' = st.fwd
  /\ rev' = st.rev
  /\ bg' = st.bg
  /\ ev' = st.ev
  /\ nid' = st.nid
  /\ pending' = pend
  /\ last' = [l EXCEPT !.log = st.log, !.ev0 = Len(ev)]
  /\ up' = up
  /\ api' = api
  /\ ops' = IF l.op \in {"scan", "bg", "trash", "restore", "worker"} THEN ops ELSE ops + 1

Commit(st, pend, l) == CommitTree(st, pend, l) /\ UNCHANGED <<deb, wk>>

\* the result r of Tree.Scan becomes the state
CommitScan(r, l) == Commit(r.st, r.pend, [l EXCEPT !.err = r.err])

NewFile(c) == [ex |-> TRUE, content |-> c, mtime |-> 1, xa |-> NoXa, was |-> {}]
Touch(st, dir) == [st EXCEPT !.fs[dir].mtime = @ + 1]

\* a file is created out-of-band; the watcher reports it
OobCreate(p, c) ==
  /\ ops < MaxOps /\ ~fs[p].ex /\ fs[Dir(p)].ex
  /\ CommitScan(Scan(Touch([TreeState EXCEPT !.fs[p] = NewFile(c)], Dir(p)),
                     pending, p, "ActionCreate", FALSE),
                Last("create", p, << >>))
  /\ UNCHANGED <<trash, tinfo, nkey>>

\* a directory is created out-of-band
OobMkdir(p) ==
  /\ ops < MaxOps /\ ~fs[p].ex /\ fs[Dir(p)].ex
  /\ CommitScan(Scan(Touch([TreeState EXCEPT !.fs[p] = NewFile(0)], Dir(p)),
                     pending, p, "ActionCreate", TRUE),
                Last("mkdir", p, << >>))
  /\ UNCHANGED <<trash, tinfo, nkey>>

\* the content of a file is changed out-of-band
OobWrite(p, c) ==
  /\ ops < MaxOps /\ fs[p].ex /\ fs[p].content # c
  /\ CommitScan(Scan([TreeState EXCEPT !.fs[p].content = c, !.fs[p].mtime = @ + 1],
                     pending, p, "ActionUpdate", FALSE),
                Last("write", p, << >>))
  /\ UNCHANGED <<trash, tinfo, nkey>>

\* the watcher reports an update of a file that has not changed
Notify(p) ==
  /\ ops < MaxOps /\ fs[p].ex
  /\ CommitScan(Scan(TreeState, pending, p, "ActionUpdate", FALSE),
                Last("notify", p, << >>))
  /\ UNCHANGED <<trash, tinfo, nkey>>

\* the second event of a rename: Scan(p, ActionMove) after Scan(q, ActionMoveFrom)
scanMoveTo(r, p) == Scan(r.st, r.pend, p, "ActionMove", FALSE)

\* a file is renamed out-of-band (mv q p): the watcher reports MoveFrom and Move
OobMove(q, p) ==
  /\ ops < MaxOps /\ q # p /\ fs[q].ex /\ ~fs[p].ex /\ fs[Dir(p)].ex
  /\ CommitScan(scanMoveTo(Scan(Touch(Touch([TreeState EXCEPT !.fs[p] = fs[q],
                                                              !.fs[q] = NoEntry],
                                            Dir(q)), Dir(p)),
                                pending, q, "ActionMoveFrom", FALSE), p),
                Last("move", p, << >>))
  /\ UNCHANGED <<trash, tinfo, nkey>>

\* a file is copied out-of-band with its xattrs (cp --preserve=xattr q p)
OobCopy(q, p) ==
  /\ ops < MaxOps /\ q # p /\ fs[q].ex /\ ~fs[p].ex /\ fs[Dir(p)].ex
  /\ CommitScan(Scan(Touch([TreeState EXCEPT
                              !.fs[p] = [fs[q] EXCEPT !.mtime = @ + 1, !.was = {}]],
                           Dir(p)),
                     pending, p, "ActionCreate", FALSE),
                Last("copy", p, << >>))
  /\ UNCHANGED <<trash, tinfo, nkey>>

\* a file or an empty directory is removed out-of-band
OobDelete(p) ==
  /\ ops < MaxOps /\ p # Root /\ fs[p].ex
  /\ \A c \in Paths : Dir(c) = p => ~fs[c].ex
  /\ CommitScan(Scan(Touch([TreeState EXCEPT !.fs[p] = NoEntry], Dir(p)),
                     pending, p, "ActionDelete", IsDirPath(p)),
                Last("delete", p, << >>))
  /\ UNCHANGED <<trash, tinfo, nkey>>

\* the timer of a pending scan fires and a worker takes the item
ScanRun(p) ==
  /\ pending[p].on
  /\ Commit(WorkItem(TreeState, p, pending[p].recurse),
            [pending EXCEPT ![p] = NoPending], Last("scan", p, << >>))
  /\ UNCHANGED <<trash, tinfo, nkey>>

\* a started goroutine runs: the re-assimilation after an id clash, or the warmup
\* after ActionMoveFrom or after the move of a directory
BgRun(t) ==
  /\ bg[t] > 0
  /\ Commit(IF t.kind = "assimilate"
            THEN assimilate([TreeState EXCEPT !.bg[t] = @ - 1], t.path).st
            ELSE WarmupIDCache([TreeState EXCEPT !.bg[t] = @ - 1], t.path, FALSE, TRUE),
            pending, Last("bg", t.path, << >>))
  /\ UNCHANGED <<trash, tinfo, nkey>>

\* a worker takes the item of a file whose id clashes, and Purge fails
ScanRunPurgeFails(p) ==
  /\ pending[p].on /\ ~pending[p].recurse
  /\ Clashes(TreeState, p)
  /\ Commit(assimilateClashUnpurged(TreeState, p, IdentifyPath(TreeState, p),
                                     GetCachedID(TreeState, IdentifyPath(TreeState, p))).st,
            [pending EXCEPT ![p] = NoPending], Last("scan", p, << >>))
  /\ UNCHANGED <<trash, tinfo, nkey>>

\* the goroutine of a re-assimilation after an id clash runs, finds the clash again
\* and Purge fails
BgRunPurgeFails(t) ==
  /\ bg[t] > 0 /\ t.kind = "assimilate"
  /\ Clashes(TreeState, t.path)
  /\ Commit(assimilateClashUnpurged([TreeState EXCEPT !.bg[t] = @ - 1], t.path,
                                     IdentifyPath(TreeState, t.path),
                                     GetCachedID(TreeState,
                                                 IdentifyPath(TreeState, t.path))).st,
            pending, Last("bg", t.path, << >>))
  /\ UNCHANGED <<trash, tinfo, nkey>>

\* the result r of a trashbin operation becomes the state
CommitTrash(r, l, k) ==
  /\ Commit(r.st, pending, l)
  /\ trash' = r.tr /\ tinfo' = r.ti /\ nkey' = k

\* Trashbin.MoveToTrash of the node at path p
ApiMoveToTrash(p) ==
  /\ nkey <= MaxTrash /\ fs[p].ex
  /\ IDsForPath(TreeState, p) # NoId
  /\ InternalPath(TreeState, IDsForPath(TreeState, p)) = p
  /\ CommitTrash(MoveToTrash(TreeState, trash, tinfo, nkey, IDsForPath(TreeState, p), p),
                 [Last("trash", p, << >>) EXCEPT
                    !.key = nkey,
                    !.pre = [xa |-> fs[p].xa, content |-> fs[p].content, path |-> p,
                             cached |-> p \in DOMAIN rev
                                        /\ rev[p] = IDsForPath(TreeState, p)]],
                 nkey + 1)

\* the result r of RestoreRecycleItem becomes the state
CommitRestore(r, k, p) ==
  CommitTrash(r, [Last("restore", p, << >>) EXCEPT
                    !.key = k, !.err = r.err,
                    !.pre = IF last.op = "trash" /\ last.key = k THEN last.pre ELSE NoSnap,
                    !.direct = last.op = "trash" /\ last.key = k],
              nkey)

\* Trashbin.RestoreRecycleItem of the trash item k to path p
ApiRestore(k, rel, p) ==
  CommitRestore(RestoreRecycleItem(TreeState, trash, tinfo, k, rel, p), k, p)

\* ------------------------------------------------------------------ the debouncer, statement by statement
\* the timer whose Stop() at line 119 keeps it from ever firing: that of the pending
\* item, if it has not fired yet (0: there is none)
Stopped(d, p) ==
  IF /\ d.pend[p].on
     /\ d.armed[d.pend[p].timer]
     /\ \A g \in 1..Len(d.gor) : d.gor[g].t # d.pend[p].timer
  THEN d.pend[p].timer ELSE 0

\* the timer that Debounce(item) makes and the variables its closure captured (path,
\* force, recurse).  t: its index; given: the flags of the item of the call; prev:
\* the timer that the call stopped;  pitem: the flags of the item that was pending
NewTimer(d, p, given, force, recurse) ==
  [t |-> Len(d.tm) + 1, path |-> p, force |-> force, recurse |-> recurse,
   given |-> given, prev |-> Stopped(d, p),
   pitem |-> [force |-> d.pend[p].on /\ d.pend[p].force,
              recurse |-> d.pend[p].on /\ d.pend[p].recurse]]

\* Debounce whose timer closure takes the flags of the item alone
DebDebounceUnmerged(p, force, recurse) ==
  /\ Len(deb.tm) < MaxCalls
  /\ deb' = [deb EXCEPT
       !.tm = Append(@, NewTimer(deb, p, [force |-> force, recurse |-> recurse],
                                 force, recurse)),
       !.armed = Append([t \in 1..Len(deb.armed) |->
                           deb.armed[t] /\ ~(deb.pend[p].on /\ deb.pend[p].timer = t)],
                        TRUE),
       !.pend[p] = [on |-> TRUE, force |-> force, recurse |-> recurse,
                    timer |-> Len(deb.tm) + 1]]
  /\ UNCHANGED <<treeVars, wk>>

\* ScanDebouncer.Debounce(item), lines 112-145, under the mutex: the flags are merged
\* with those of the pending item into the closure of the new timer, the pending
\* timer is stopped, and the item is stored as given
Debounced(d, p, force, recurse) ==
  [d EXCEPT
     !.tm = Append(@, NewTimer(d, p, [force |-> force, recurse |-> recurse],
                               force \/ (d.pend[p].on /\ d.pend[p].force),
                               recurse \/ (d.pend[p].on /\ d.pend[p].recurse))),
     !.armed = Append([t \in 1..Len(d.armed) |->
                         d.armed[t] /\ ~(d.pend[p].on /\ d.pend[p].timer = t)],
                      TRUE),
     !.pend[p] = [on |-> TRUE, force |-> force, recurse |-> recurse,
                  timer |-> Len(d.tm) + 1]]

\* lines 128-130, under the mutex: the timer of the pending item, if there is one,
\* is reset
Rescheduled(d, p) ==
  [d EXCEPT !.armed = [t \in 1..Len(d.armed) |->
                         d.armed[t] \/ (d.pend[p].on /\ d.pend[p].timer = t)]]

\* ScanDebouncer.Debounce(item) for a delay > 0, lines 109-145
DebDebounce(p, force, recurse) ==
  /\ Len(deb.tm) < MaxCalls
  /\ deb' = Debounced(deb, p, force, recurse)
  /\ UNCHANGED <<treeVars, wk>>

\* the delay of timer t has passed: its callback starts in a goroutine of its own
DebFire(t) ==
  /\ deb.armed[t]
  /\ Len(deb.gor) < MaxFires
  /\ deb' = [deb EXCEPT !.armed[t] = FALSE,
                        !.gor = Append(@, [t |-> t, pc |-> "check"])]
  /\ UNCHANGED <<treeVars, wk>>

\* line 125: d.inProgress.Load(path), outside the mutex
DebCheck(g) ==
  /\ deb.gor[g].pc = "check"
  /\ deb' = [deb EXCEPT !.gor[g].pc =
               IF deb.inProgress[deb.tm[deb.gor[g].t].path] THEN "reschedule" ELSE "delete"]
  /\ UNCHANGED <<treeVars, wk>>

\* lines 127-133, under the mutex: the timer of the pending item, if there is one,
\* is reset; f is not called
DebReschedule(g) ==
  /\ deb.gor[g].pc = "reschedule"
  /\ deb' = [Rescheduled(deb, deb.tm[deb.gor[g].t].path) EXCEPT !.gor[g].pc = "done"]
  /\ UNCHANGED <<treeVars, wk>>

\* line 136: d.pending.Delete(path)
DebDelete(g) ==
  /\ deb.gor[g].pc = "delete"
  /\ deb' = [deb EXCEPT !.gor[g].pc = "store",
                        !.pend[deb.tm[deb.gor[g].t].path] = NoQueueItem]
  /\ UNCHANGED <<treeVars, wk>>

\* lines 137-139: d.inProgress.Store(path, true), then f is called with the flags
\* of the closure
DebStore(g) ==
  /\ deb.gor[g].pc = "store"
  /\ deb' = [deb EXCEPT !.gor[g].pc = "f",
                        !.inProgress[deb.tm[deb.gor[g].t].path] = TRUE,
                        !.runs = Append(@, deb.tm[deb.gor[g].t]),
                        !.calls = Append(@, Len(deb.tm))]
  /\ UNCHANGED <<treeVars, wk>>

\* f returns
DebReturn(g) ==
  /\ deb.gor[g].pc = "f"
  /\ deb' = [deb EXCEPT !.gor[g].pc = "deferred"]
  /\ UNCHANGED <<treeVars, wk>>

\* line 138: the deferred d.inProgress.Delete(path)
DebDeferred(g) ==
  /\ deb.gor[g].pc = "deferred"
  /\ deb' = [deb EXCEPT !.gor[g].pc = "done",
                        !.inProgress[deb.tm[deb.gor[g].t].path] = FALSE]
  /\ UNCHANGED <<treeVars, wk>>

\* ScanDebouncer.InProgress(path), lines 149-158, under the mutex
DebInProgress(p) == deb.pend[p].on \/ deb.inProgress[p]

NextDeb ==
  \/ \E p \in DebPaths, force \in BOOLEAN, recurse \in BOOLEAN : DebDebounce(p, force, recurse)
  \/ \E t \in 1..Len(deb.tm) : DebFire(t)
  \/ \E g \in 1..Len(deb.gor) : DebCheck(g)
  \/ \E g \in 1..Len(deb.gor) : DebReschedule(g)
  \/ \E g \in 1..Len(deb.gor) : DebDelete(g)
  \/ \E g \in 1..Len(deb.gor) : DebStore(g)
  \/ \E g \in 1..Len(deb.gor) : DebReturn(g)
  \/ \E g \in 1..Len(deb.gor) : DebDeferred(g)

\* ------------------------------------------------------------------ the debouncer and its mutex
\* a thread that called Debounce or InProgress, or the callback of a fired timer.
\*   kind: "call" or "timer";  t: the timer;  path, force, recurse: the item of the
\*   call or of the closure;  pc: the statement it is at;  op, arg: the method that
\*   is being executed under the mutex and its path;  ret: where the method returns
\*   to;  nest: the calls that f has made;  res: the result of InProgress
Thread(kind, t, p, force, recurse, pc, op) ==
  [kind |-> kind, t |-> t, path |-> p, force |-> force, recurse |-> recurse,
   pc |-> pc, op |-> op, arg |-> p, ret |-> "done", nest |-> 0, res |-> FALSE]

Threads == 1..Len(deb.thr)

\* a goroutine calls Debounce(item), lines 103-110: with delay 0 it calls f at once,
\* otherwise it goes for the mutex
MxDebounce(p, force, recurse) ==
  /\ Len(deb.thr) < MaxThreads
  /\ deb' = [deb EXCEPT !.thr = Append(@, Thread("call", 0, p, force, recurse,
                                               IF deb.after = 0 THEN "f" ELSE "lock",
                                               "debounce"))]
  /\ UNCHANGED <<treeVars, wk>>

\* a goroutine calls InProgress(path), line 150
MxInProgress(p) ==
  /\ Len(deb.thr) < MaxThreads
  /\ deb' = [deb EXCEPT !.thr = Append(@, Thread("call", 0, p, FALSE, FALSE,
                                               "lock", "inprogress"))]
  /\ UNCHANGED <<treeVars, wk>>

\* d.mutex.Lock(), lines 109, 127 and 150: blocks while another thread, or the
\* thread itself, holds the mutex
MxLock(th) ==
  /\ deb.thr[th].pc = "lock"
  /\ deb.mutex = 0
  /\ deb' = [deb EXCEPT !.mutex = th, !.thr[th].pc = "body"]
  /\ UNCHANGED <<treeVars, wk>>

\* what the method does while it holds the mutex: lines 112-145, 128-130, 152-157
MxBody(th) ==
  /\ deb.thr[th].pc = "body"
  /\ deb.thr[th].op = "debounce" => Len(deb.tm) < MaxCalls
  /\ deb' = IF deb.thr[th].op = "debounce"
            THEN [Debounced(deb, deb.thr[th].arg, deb.thr[th].force, deb.thr[th].recurse)
                    EXCEPT !.thr[th].pc = "unlock"]
            ELSE IF deb.thr[th].op = "reschedule"
            THEN [Rescheduled(deb, deb.thr[th].arg) EXCEPT !.thr[th].pc = "unlock"]
            ELSE [deb EXCEPT !.thr[th].pc = "unlock",
                             !.thr[th].res = DebInProgress(deb.thr[th].arg)]
  /\ UNCHANGED <<treeVars, wk>>

\* the method returns and keeps the mutex
MxReturnLocked(th) ==
  /\ deb.thr[th].pc = "unlock"
  /\ deb' = [deb EXCEPT !.thr[th].pc = deb.thr[th].ret]
  /\ UNCHANGED <<treeVars, wk>>

\* d.mutex.Unlock(), lines 110, 132 and 151; the method returns
MxUnlock(th) ==
  /\ deb.thr[th].pc = "unlock"
  /\ deb' = [deb EXCEPT !.mutex = 0, !.thr[th].pc = deb.thr[th].ret]
  /\ UNCHANGED <<treeVars, wk>>

\* the delay of timer t has passed: its callback starts in a goroutine of its own
MxFire(t) ==
  /\ deb.armed[t]
  /\ Len(deb.thr) < MaxThreads
  /\ deb' = [deb EXCEPT !.armed[t] = FALSE,
                        !.thr = Append(@, Thread("timer", t, deb.tm[t].path, deb.tm[t].force,
                                                 deb.tm[t].recurse, "check", "reschedule"))]
  /\ UNCHANGED <<treeVars, wk>>

\* line 125: d.inProgress.Load(path); lines 126-127 go for the mutex
MxCheck(th) ==
  /\ deb.thr[th].pc = "check"
  /\ deb' = [deb EXCEPT !.thr[th].pc =
               IF deb.inProgress[deb.thr[th].path] THEN "lock" ELSE "delete"]
  /\ UNCHANGED <<treeVars, wk>>

\* line 136: d.pending.Delete(path)
MxDelete(th) ==
  /\ deb.thr[th].pc = "delete"
  /\ deb' = [deb EXCEPT !.thr[th].pc = "store", !.pend[deb.thr[th].path] = NoQueueItem]
  /\ UNCHANGED <<treeVars, wk>>

\* lines 137-139: d.inProgress.Store(path, true), then f is called
MxStore(th) ==
  /\ deb.thr[th].pc = "store"
  /\ deb' = [deb EXCEPT !.thr[th].pc = "f", !.inProgress[deb.thr[th].path] = TRUE]
  /\ UNCHANGED <<treeVars, wk>>

\* f calls Debounce or InProgress for path q.  With delay 0 the Debounce it calls
\* calls f in turn.
MxFCalls(th, q, op) ==
  /\ deb.thr[th].pc = "f"
  /\ deb.thr[th].nest < MaxNest
  /\ deb' = IF op = "debounce" /\ deb.after = 0
            THEN [deb EXCEPT !.thr[th].nest = @ + 1]
            ELSE [deb EXCEPT !.thr[th].nest = @ + 1, !.thr[th].pc = "lock",
                             !.thr[th].op = op, !.thr[th].arg = q, !.thr[th].ret = "f"]
  /\ UNCHANGED <<treeVars, wk>>

\* f returns: to the callback, which has the deferred call of line 138 to run, or
\* to the Debounce call of line 105
MxFReturns(th) ==
  /\ deb.thr[th].pc = "f"
  /\ deb' = [deb EXCEPT !.thr[th].pc =
               IF deb.thr[th].kind = "timer" THEN "deferred" ELSE "done"]
  /\ UNCHANGED <<treeVars, wk>>

\* line 138: the deferred d.inProgress.Delete(path)
MxDeferred(th) ==
  /\ deb.thr[th].pc = "deferred"
  /\ deb' = [deb EXCEPT !.thr[th].pc = "done", !.inProgress[deb.thr[th].path] = FALSE]
  /\ UNCHANGED <<treeVars, wk>>

NextMutex ==
  \/ \E p \in DebPaths, b \in BOOLEAN : MxDebounce(p, b, b)
  \/ \E p \in DebPaths : MxInProgress(p)
  \/ \E th \in Threads : MxLock(th)
  \/ \E th \in Threads : MxBody(th)
  \/ \E th \in Threads : MxUnlock(th)
  \/ \E t \in 1..Len(deb.tm) : MxFire(t)
  \/ \E th \in Threads : MxCheck(th)
  \/ \E th \in Threads : MxDelete(th)
  \/ \E th \in Threads : MxStore(th)
  \/ \E th \in Threads, q \in DebPaths, op \in {"debounce", "inprogress"} : MxFCalls(th, q, op)
  \/ \E th \in Threads : MxFReturns(th)
  \/ \E th \in Threads : MxDeferred(th)

\* ------------------------------------------------------------------ the workers, lock by lock
\* the assimilate calls in progress, from entry to return
InCall(k, w, p) == k.proc[w].pc \in {"lock", "identify", "body"} /\ k.proc[w].at = p

\* worker w enters assimilate for path p
StartCall(k, w, p, top) ==
  [k EXCEPT !.proc[w].pc = "lock", !.proc[w].at = p, !.proc[w].top = top,
            !.proc[w].seen = IdentifyPath(TreeState, p),
            !.races = IF /\ IdentifyPath(TreeState, p) = NoId
                         /\ \E v \in Workers \ {w} : InCall(k, v, p) /\ k.proc[v].seen = NoId
                      THEN @ \cup {p} ELSE @]

\* workScanQueue, lines 164-166: a worker takes the item of a fired timer from the
\* scan queue and calls assimilate.  Of the idle workers the first one takes it:
\* which of them receives from the channel makes no difference.
WkTake(w, p) ==
  /\ wk.proc[w].pc = "idle"
  /\ \A v \in Workers : v < w => wk.proc[v].pc # "idle"
  /\ pending[p].on
  /\ pending' = [pending EXCEPT ![p] = NoPending]
  /\ wk' = StartCall([wk EXCEPT !.proc[w].item = p,
                                !.proc[w].recurse = pending[p].recurse], w, p, TRUE)
  /\ UNCHANGED <<fs, fwd, rev, bg, ev, nid, ops, trash, tinfo, nkey, last, deb, up, api>>

\* WkLock without waiting for the lock to be free
WkLockNoWait(w) ==
  /\ wk.proc[w].pc = "lock"
  /\ wk' = [wk EXCEPT !.lock[wk.proc[w].at] = w, !.proc[w].pc = "identify"]
  /\ UNCHANGED <<treeVars, deb>>

\* assimilate, lines 366-373: MetadataBackend.Lock blocks until the lock is free
WkLock(w) ==
  /\ wk.proc[w].pc = "lock"
  /\ wk.lock[wk.proc[w].at] = 0
  /\ wk' = [wk EXCEPT !.lock[wk.proc[w].at] = w, !.proc[w].pc = "identify"]
  /\ UNCHANGED <<treeVars, deb>>

\* WkIdentify with the id the path had when the call was entered
WkIdentifyStale(w) ==
  /\ wk.proc[w].pc = "identify"
  /\ wk' = [wk EXCEPT !.proc[w].pc = "body", !.proc[w].id = wk.proc[w].seen]
  /\ UNCHANGED <<treeVars, deb>>

\* assimilate, lines 380-384: the id is read after the lock has been taken
WkIdentify(w) ==
  /\ wk.proc[w].pc = "identify"
  /\ wk' = [wk EXCEPT !.proc[w].pc = "body",
                      !.proc[w].id = IdentifyPath(TreeState, wk.proc[w].at)]
  /\ UNCHANGED <<treeVars, deb>>

\* filepath.Walk: the index of the first entry at or after i that the walk of root
\* visits, Len(WalkOrder) + 1 if there is none
NextWalked(st, root, i) ==
  LET js == {j \in i..Len(WalkOrder) : Under(WalkOrder[j], root) /\ Exists(st, WalkOrder[j])}
  IN IF js = {} THEN Len(WalkOrder) + 1 ELSE CHOOSE j \in js : \A k \in js : j <= k

\* the call returns: the deferred unlock runs; workScanQueue goes on with the
\* warmup of a recursive item, the walk with lines 780-789
Returned(k, w, r) ==
  [k EXCEPT !.lock[k.proc[w].at] = 0,
            !.proc[w] = IF ~k.proc[w].top THEN [@ EXCEPT !.pc = "walked"]
                        ELSE IF r.err \/ ~k.proc[w].recurse THEN IdleProc
                        ELSE [@ EXCEPT !.pc = "walk", !.at = NoPath,
                                       !.i = NextWalked(r.st, k.proc[w].item, 1)]]

\* the result r of the locked part of assimilate becomes the state
WkBodyDone(w, r) ==
  /\ CommitTree(r.st, pending, [Last("worker", wk.proc[w].at, << >>) EXCEPT !.err = r.err])
  /\ wk' = Returned(wk, w, r)
  /\ UNCHANGED <<trash, tinfo, nkey, deb>>

\* assimilate, lines 386-523, under the lock of the path; updateFile takes the lock
\* of the parent when it assimilates the parent
WkBody(w) ==
  /\ wk.proc[w].pc = "body"
  /\ (/\ wk.proc[w].at # Root
      /\ IDsForPath(TreeState, Dir(wk.proc[w].at)) # NoId
      /\ parentUnassimilated(TreeState, wk.proc[w].at))
       => wk.lock[Dir(wk.proc[w].at)] = 0
  /\ WkBodyDone(w, assimilateAs(TreeState, wk.proc[w].at, wk.proc[w].id))

\* WarmupIDCache, lines 780-789, after the assimilate call of the walk returned
WkWalked(w) ==
  /\ wk.proc[w].pc = "walked"
  /\ CommitTree(setDirty(walkCache(TreeState, wk.proc[w].wid, wk.proc[w].at),
                         wk.proc[w].at, FALSE),
                pending, Last("worker", wk.proc[w].at, << >>))
  /\ wk' = [wk EXCEPT !.proc[w].pc = "walk", !.proc[w].at = NoPath,
                      !.proc[w].i = NextWalked(TreeState, wk.proc[w].item, @ + 1)]
  /\ UNCHANGED <<trash, tinfo, nkey, deb>>

\* WarmupIDCache(item.Path, true, false), lines 702-789: the next entry of the walk.
\* An entry without id, or with a clashing id, is assimilated.
WkWalk(w) ==
  /\ wk.proc[w].pc = "walk"
  /\ wk.proc[w].i <= Len(WalkOrder)
  /\ LET path == WalkOrder[wk.proc[w].i]
     IN IF ~(Under(path, wk.proc[w].item) /\ Exists(TreeState, path))
        THEN /\ wk' = [wk EXCEPT !.proc[w].i = NextWalked(TreeState, wk.proc[w].item, @ + 1)]
             /\ UNCHANGED treeVars
        ELSE IF walkClash(TreeState, path) \/ IdentifyPath(TreeState, path) = NoId
        THEN /\ wk' = StartCall([wk EXCEPT
                                   !.proc[w].sizes =
                                      walkSizes([st |-> TreeState, sizes |-> wk.proc[w].sizes],
                                                path, wk.proc[w].item, FALSE),
                                   !.proc[w].wid = IdentifyPath(TreeState, path)],
                                w, path, FALSE)
             /\ UNCHANGED treeVars
        ELSE /\ wk' = [wk EXCEPT
                         !.proc[w].sizes =
                            walkSizes([st |-> TreeState, sizes |-> wk.proc[w].sizes],
                                      path, wk.proc[w].item, FALSE),
                         !.proc[w].i = NextWalked(TreeState, wk.proc[w].item, @ + 1)]
             /\ CommitTree(setDirty(walkCache(TreeState, IdentifyPath(TreeState, path), path),
                                    path, FALSE),
                           pending, Last("worker", path, << >>))
             /\ UNCHANGED <<trash, tinfo, nkey>>
  /\ UNCHANGED deb

\* WarmupIDCache, lines 792-812: the walk is over and the treesizes are written
WkSizes(w) ==
  /\ wk.proc[w].pc = "walk"
  /\ wk.proc[w].i > Len(WalkOrder)
  /\ CommitTree(writeSizes([st |-> TreeState, sizes |-> wk.proc[w].sizes], wk.proc[w].item),
                pending, Last("worker", wk.proc[w].item, << >>))
  /\ wk' = [wk EXCEPT !.proc[w] = IdleProc]
  /\ UNCHANGED <<trash, tinfo, nkey, deb>>

\* new files and directories, and the workers that assimilate them
NextLock ==
  \/ \E p \in FilePaths : OobCreate(p, 1)
  \/ \E p \in DirPaths : OobMkdir(p)
  \/ \E w \in Workers, p \in Paths : WkTake(w, p)
  \/ \E w \in Workers : WkLock(w)
  \/ \E w \in Workers : WkIdentify(w)
  \/ \E w \in Workers : WkBody(w)
  \/ \E w \in Workers : WkWalked(w)
  \/ \E w \in Workers : WkWalk(w)
  \/ \E w \in Workers : WkSizes(w)

\* ------------------------------------------------------------------ the walk, entry by entry
\* the entry of the set ps that filepath.Walk visits first
FirstOf(ps) ==
  WalkOrder[CHOOSE i \in 1..Len(WalkOrder) :
              /\ WalkOrder[i] \in ps
              /\ \A j \in 1..(i - 1) : WalkOrder[j] \notin ps]

\* readDirNames: the entries of the directory p
DirNames(st, p) == {c \in Paths : Dir(c) = p /\ Exists(st, c)}

\* WarmupIDCache(root, assimilate, onlyDirty) is called: filepath.Walk starts with
\* the Lstat of root
DwStart(w, root, doAssimilate, onlyDirty) ==
  /\ wk.proc[w].pc = "idle" /\ wk.walks < MaxWalks
  /\ Exists(TreeState, root)
  /\ wk' = [wk EXCEPT !.walks = @ + 1,
                      !.proc[w] = [IdleProc EXCEPT !.pc = "dread", !.item = root,
                                                   !.names = {root},
                                                   !.assimilate = doAssimilate,
                                                   !.onlyDirty = onlyDirty]]
  /\ UNCHANGED <<treeVars, deb>>

\* filepath.Walk, before it calls the callback for the next entry: for a directory
\* its names are read (readDirNames), for a file nothing is read
DwRead(w) ==
  /\ wk.proc[w].pc = "dread" /\ wk.proc[w].names # {}
  /\ wk' = [wk EXCEPT
              !.proc[w].pc = "dcall",
              !.proc[w].at = FirstOf(wk.proc[w].names),
              !.proc[w].names = @ \cup DirNames(TreeState, FirstOf(wk.proc[w].names))]
  /\ UNCHANGED <<treeVars, deb>>

\* WarmupIDCache, lines 702-789: the callback for the entry; a directory that is not
\* dirty is skipped with the names read for it, the others are identified, cached and
\* marked as not dirty
DwCallback(w) ==
  /\ wk.proc[w].pc = "dcall"
  /\ IF /\ IsDirPath(wk.proc[w].at) /\ wk.proc[w].onlyDirty
        /\ ~isDirty(TreeState, wk.proc[w].at)
     THEN /\ wk' = [wk EXCEPT !.proc[w].pc = "dread",
                              !.proc[w].names =
                                 {c \in @ : ~Under(c, wk.proc[w].at)}]
          /\ UNCHANGED treeVars
     ELSE /\ wk' = [wk EXCEPT
                      !.proc[w].pc = "dread",
                      !.proc[w].names = @ \ {wk.proc[w].at},
                      !.proc[w].sizes =
                         walkSizes([st |-> TreeState, sizes |-> wk.proc[w].sizes],
                                   wk.proc[w].at, wk.proc[w].item, wk.proc[w].onlyDirty),
                      !.visited = @ \cup {wk.proc[w].at}]
          /\ CommitTree(WalkIdentify(TreeState, wk.proc[w].at, wk.proc[w].assimilate),
                        pending, Last("worker", wk.proc[w].at, << >>))
          /\ UNCHANGED <<trash, tinfo, nkey>>
  /\ UNCHANGED deb

\* WarmupIDCache, lines 792-812: the walk is over and the treesizes are written
DwSizes(w) ==
  /\ wk.proc[w].pc = "dread" /\ wk.proc[w].names = {}
  /\ CommitTree(writeSizes([st |-> TreeState, sizes |-> wk.proc[w].sizes], wk.proc[w].item),
                pending, Last("worker", wk.proc[w].item, << >>))
  /\ wk' = [wk EXCEPT !.proc[w] = IdleProc]
  /\ UNCHANGED <<trash, tinfo, nkey, deb>>

\* new files and directories, reported by the watcher, and the walks of WarmupIDCache
NextWalk ==
  \/ \E p \in FilePaths : OobCreate(p, 1)
  \/ \E p \in DirPaths : OobMkdir(p)
  \/ \E w \in Workers, root \in DirPaths, doAssimilate \in BOOLEAN, onlyDirty \in BOOLEAN :
       DwStart(w, root, doAssimilate, onlyDirty)
  \/ \E w \in Workers : DwRead(w)
  \/ \E w \in Workers : DwCallback(w)
  \/ \E w \in Workers : DwSizes(w)

\* out-of-band changes reported by the watcher, and the scans they cause
NextScan ==
  \/ \E p \in FilePaths, c \in Contents : OobCreate(p, c)
  \/ \E p \in DirPaths : OobMkdir(p)
  \/ \E p \in FilePaths, c \in Contents : OobWrite(p, c)
  \/ \E p \in FilePaths : Notify(p)
  \/ \E q \in FilePaths, p \in FilePaths : OobMove(q, p)
  \/ \E q \in FilePaths, p \in FilePaths : OobCopy(q, p)
  \/ \E p \in Paths : OobDelete(p)
  \/ \E p \in Paths : ScanRun(p)
  \/ \E t \in Tasks : BgRun(t)

\* the scans, where the Purge of a re-assimilation can fail
NextClash ==
  \/ NextScan
  \/ \E p \in Paths : ScanRunPurgeFails(p)
  \/ \E t \in Tasks : BgRunPurgeFails(t)

NextTrash ==
  \/ \E p \in FilePaths : ApiMoveToTrash(p)
  \/ \E k \in DOMAIN trash, rel \in RelSelf, p \in FilePaths : ApiRestore(k, rel, p)

Next == NextScan \/ NextTrash

\* the watched tree with the trashbin
Spec == Init /\ [][Next]_vars
\* the watched tree alone
SpecScan == Init /\ [][NextScan]_vars
\* the debouncer alone, its callbacks interleaved statement by statement
SpecDeb == Init /\ [][NextDeb]_vars
\* a timer that is armed fires and the goroutine of its callback runs on, statement
\* by statement, until it returns; f returns
DebProgress ==
  \/ \E t \in 1..Len(deb.tm) : DebFire(t)
  \/ \E g \in 1..Len(deb.gor) :
       \/ DebCheck(g) \/ DebReschedule(g) \/ DebDelete(g)
       \/ DebStore(g) \/ DebReturn(g) \/ DebDeferred(g)
\* the debouncer alone, where the timers fire, the goroutines are scheduled and f
\* terminates; Debounce calls stop at some time
SpecDebFair == Init /\ [][NextDeb]_vars /\ WF_vars(DebProgress)
\* the watched tree, where the Purge of a re-assimilation can fail
SpecClash == Init /\ [][NextClash]_vars
\* the walks of WarmupIDCache, entry by entry, while files and directories are created
SpecWalk == Init /\ [][NextWalk]_vars
\* the scan workers, their assimilate calls interleaved at the metadata lock
SpecLock == Init /\ [][NextLock]_vars
\* the debouncer with its mutex, for a delay of 0 and for a delay > 0
SpecMutex == InitMutex /\ [][NextMutex]_vars

\* ------------------------------------------------------------------ revisions
\* the variables the uploads leave alone
scanVars == <<fs, fwd, rev, pending, bg, ev, nid, ops, trash, tinfo, nkey, last, deb, wk,
              api>>

\* upload u has the lock of the node when it returns: unlock closes the lock file
Unlocked(k, u) ==
  [k EXCEPT !.locked = @ \ {k.proc[u].fd}, !.proc[u] = IdleUpload]

\* lockedfile.OpenFile(path, os.O_RDWR|os.O_CREATE), its os.OpenFile: call u has the
\* file the path names open, a new file if there is none; the lock is on the file
OpenedLockfile(k, u) ==
  IF k.lockfile = 0
  THEN [k EXCEPT !.lockfile = k.ninode, !.ninode = @ + 1, !.proc[u].fd = k.ninode]
  ELSE [k EXCEPT !.proc[u].fd = k.lockfile]

\* lockedfile.OpenFile, its filelock.Lock: call u has the lock of the file it opened
Locked(k, u) == [k EXCEPT !.locked = @ \cup {k.proc[u].fd}]

\* CreateRevision is called by upload u: n is the node as it is at the call
CreateRevisionCalled(k, u, tries) ==
  [k EXCEPT !.proc[u].pc = "open", !.proc[u].t = k.node.xa.mtime,
            !.proc[u].n = k.node, !.proc[u].tries = tries,
            !.proc[u].old = k.revs[k.node.xa.mtime]]

\* CreateNodeForUpload for a node that exists: an upload of blob b starts
UpStart(u, b) ==
  /\ up.started < MaxUploads /\ up.proc[u].pc = "idle"
  /\ up' = OpenedLockfile([up EXCEPT !.started = @ + 1,
                                     !.proc[u] = [IdleUpload EXCEPT !.pc = "lock",
                                                                    !.blob = b]], u)
  /\ UNCHANGED scanVars

\* updateExistingNode with a lock that does not wait for its holder
UpLockNoWait(u) ==
  /\ up.proc[u].pc = "lock"
  /\ up' = CreateRevisionCalled(Locked(up, u), u, 1)
  /\ UNCHANGED scanVars

\* updateExistingNode: the lock of the opened lock file is taken (waits while another
\* call holds it), the mtime of the old node read and CreateRevision called with it
UpLock(u) ==
  /\ up.proc[u].pc = "lock" /\ up.proc[u].fd \notin up.locked
  /\ up' = CreateRevisionCalled(Locked(up, u), u, 1)
  /\ UNCHANGED scanVars

\* CreateRevision with os.O_TRUNC in place of os.O_EXCL: the file that exists is emptied
CrOpenTruncating(u) ==
  /\ up.proc[u].pc = "open"
  /\ up' = [up EXCEPT !.proc[u].pc = "copy",
                      !.revs[up.proc[u].t].ex = TRUE,
                      !.revs[up.proc[u].t].content = << >>]
  /\ UNCHANGED scanVars

\* CreateRevision, lines 51-66: the node file is opened and the revision file created
\* with O_EXCL
CrOpen(u) ==
  /\ up.proc[u].pc = "open"
  /\ up' = IF up.revs[up.proc[u].t].ex
           THEN [up EXCEPT !.proc[u].pc = "exist"]
           ELSE [up EXCEPT !.proc[u].pc = "copy",
                           !.revs[up.proc[u].t] = [NoRevision EXCEPT !.ex = TRUE]]
  /\ UNCHANGED scanVars

\* CreateRevision, line 67: io.Copy copies the next chunk, or reaches the end; what is
\* written to a file that DeleteRevision unlinked meanwhile is lost
CrCopy(u) ==
  /\ up.proc[u].pc = "copy"
  /\ up' = IF /\ up.revs[up.proc[u].t].ex
              /\ Len(up.revs[up.proc[u].t].content) < Len(up.node.content)
           THEN [up EXCEPT !.revs[up.proc[u].t].content =
                              Append(@, up.node.content[Len(@) + 1])]
           ELSE [up EXCEPT !.proc[u].pc = "meta"]
  /\ UNCHANGED scanVars

\* CreateRevision, lines 67-69: io.Copy fails; the upload returns the error and unlocks
CrCopyFails(u) ==
  /\ up.proc[u].pc = "copy"
  /\ up' = Unlocked(up, u)
  /\ UNCHANGED scanVars

\* the filter of lines 73-79 applied to the attributes of the node
CopiedAttrs(to, from) ==
  [to EXCEPT !.cs = from.cs, !.type = from.type, !.blobid = from.blobid,
             !.blobsize = from.blobsize, !.mtime = from.mtime]

\* CreateRevision, lines 73-83: the blob metadata is copied and the path returned;
\* setting the attributes of a path that DeleteRevision removed meanwhile fails
CrMeta(u) ==
  /\ up.proc[u].pc = "meta"
  /\ up' = IF up.revs[up.proc[u].t].ex
           THEN [up EXCEPT !.proc[u].pc = "returned",
                           !.revs[up.proc[u].t].xa = CopiedAttrs(@, up.node.xa)]
           ELSE Unlocked(up, u)
  /\ UNCHANGED scanVars

\* validateChecksums: the checksums of the node and of the revision are set and equal
validateChecksums(k, t) ==
  k.node.xa.cs # 0 /\ k.revs[t].xa.cs # 0 /\ k.node.xa.cs = k.revs[t].xa.cs

\* updateExistingNode, lines 503-527: a revision with this mtime exists.  With equal
\* checksums the old blob is deleted (with it the revision file, or not) and
\* CreateRevision called again; a second failure, or a mismatch, is returned
UpExist(u, gone) ==
  /\ up.proc[u].pc = "exist"
  /\ up' = IF up.proc[u].tries = 1 /\ validateChecksums(up, up.proc[u].t)
           THEN CreateRevisionCalled(
                  [up EXCEPT !.revs[up.proc[u].t] = IF gone THEN NoRevision ELSE @,
                             !.blobs = @ \ {up.revs[up.proc[u].t].xa.blobid}], u, 2)
           ELSE Unlocked(up, u)
  /\ UNCHANGED scanVars

\* CreateNodeForUpload: the metadata of the node is overwritten for the new blob,
\* with the mtime of the session or the current time, and the lock released; the
\* sizeDiff of updateExistingNode, line 538, is propagated
UpFinish(u, m) ==
  /\ up.proc[u].pc = "returned"
  /\ up' = Unlocked([up EXCEPT !.node.content = up.proc[u].blob,
                               !.treesize = @ + Len(up.proc[u].blob)
                                              - up.proc[u].n.xa.blobsize,
                               !.node.xa = [BlobAttrs(@, up.proc[u].blob, m)
                                              EXCEPT !.blobid = up.nblob],
                               !.blobs = @ \cup {up.nblob},
                               !.nblob = @ + 1], u)
  /\ UNCHANGED scanVars

\* CreateNodeForUpload: writing the metadata fails and the lock is released
UpAbort(u) ==
  /\ up.proc[u].pc = "returned"
  /\ up' = Unlocked(up, u)
  /\ UNCHANGED scanVars

\* RestoreRevision, lines 229-273: the key is split, the node read, the permission
\* checked and the lock file opened; the revision with timestamp t is to be restored
RrStart(u, t) ==
  /\ up.started < MaxUploads /\ up.proc[u].pc = "idle"
  /\ up' = OpenedLockfile([up EXCEPT !.started = @ + 1,
                                     !.proc[u] = [IdleUpload EXCEPT
                                                    !.pc = "rlock", !.key = t,
                                                    !.bs = up.node.xa.blobsize]], u)
  /\ UNCHANGED scanVars

\* RestoreRevision, lines 273-291: the lock of the opened lock file is taken and the
\* mtime of the node read: it is the timestamp of the new revision
RrLock(u) ==
  /\ up.proc[u].pc = "rlock" /\ up.proc[u].fd \notin up.locked
  /\ up' = [Locked(up, u) EXCEPT !.proc[u].pc = "create",
                                 !.proc[u].t = up.node.xa.mtime, !.proc[u].n = up.node,
                                 !.proc[u].old = up.revs[up.proc[u].key]]
  /\ UNCHANGED scanVars

\* RestoreRevision, line 294: os.Create makes the new revision file, or truncates the
\* file that is there
RrCreate(u) ==
  /\ up.proc[u].pc = "create"
  /\ up' = [up EXCEPT !.proc[u].pc = "tometa",
                      !.revs[up.proc[u].t].ex = TRUE,
                      !.revs[up.proc[u].t].content = << >>]
  /\ UNCHANGED scanVars

\* RestoreRevision returns an error and leaves the new revision where it is
Uncompensated(k, u) == [k EXCEPT !.proc[u].pc = "failed"]

\* RestoreRevision, lines 297-306: an error is returned after the new revision was
\* created; the deferred function removes the file and purges its metadata
Compensated(k, u) ==
  [k EXCEPT !.proc[u].pc = "failed", !.revs[k.proc[u].t] = NoRevision]

\* RestoreRevision, lines 309-318: the blob metadata of the node is copied to the new
\* revision
RrToRevision(u) ==
  /\ up.proc[u].pc = "tometa"
  /\ up' = [up EXCEPT !.proc[u].pc = "chtimes",
                      !.revs[up.proc[u].t].xa = CopiedAttrs(@, up.node.xa)]
  /\ UNCHANGED scanVars

\* RestoreRevision, lines 321-323: os.Chtimes of the new revision
RrChtimes(u) ==
  /\ up.proc[u].pc = "chtimes"
  /\ up' = [up EXCEPT !.proc[u].pc = "tonode"]
  /\ UNCHANGED scanVars

\* the filter of lines 329-334 applied to the attributes of the restored revision
RestoredAttrs(to, from) ==
  [to EXCEPT !.cs = from.cs, !.type = from.type, !.blobid = from.blobid,
             !.blobsize = from.blobsize]

\* RestoreRevision, lines 328-337: the blob metadata of the restored revision is copied
\* to the node; fails when the revision does not exist
RrToNode(u) ==
  /\ up.proc[u].pc = "tonode"
  /\ up' = IF up.revs[up.proc[u].key].ex
           THEN [up EXCEPT !.proc[u].pc = "setmtime",
                           !.proc[u].was = up.node.xa.blobsize,
                           !.node.xa = RestoredAttrs(@, up.revs[up.proc[u].key].xa)]
           ELSE Compensated(up, u)
  /\ UNCHANGED scanVars

\* RestoreRevision, lines 339-346: the mtime attribute of the node is set to now
RrSetMtime(u) ==
  /\ up.proc[u].pc = "setmtime"
  /\ up' = [up EXCEPT !.proc[u].pc = "size", !.node.xa.mtime = @ + 1]
  /\ UNCHANGED scanVars

\* RestoreRevision, lines 348-351: the blobsize of the restored revision is read
RrSize(u) ==
  /\ up.proc[u].pc = "size"
  /\ up' = IF up.revs[up.proc[u].key].xa.blobsize # -1
           THEN [up EXCEPT !.proc[u].pc = "drop",
                           !.proc[u].rsize = up.revs[up.proc[u].key].xa.blobsize]
           ELSE Compensated(up, u)
  /\ UNCHANGED scanVars

\* RestoreRevision, lines 354-365: the restored revision and its metadata are removed
RrDrop(u) ==
  /\ up.proc[u].pc = "drop"
  /\ up' = [up EXCEPT !.proc[u].pc = "propagate", !.revs[up.proc[u].key] = NoRevision]
  /\ UNCHANGED scanVars

\* RestoreRevision, lines 369-371: sizeDiff is the blobsize of the restored revision
\* less n.Blobsize, and Propagate adds it to the treesize of the ancestors
RrPropagate(u) ==
  /\ up.proc[u].pc = "propagate"
  /\ up' = [up EXCEPT !.proc[u].pc = "restored",
                      !.treesize = @ + up.proc[u].rsize - up.proc[u].bs]
  /\ UNCHANGED scanVars

\* the steps of RestoreRevision that return an error when their call fails
RrFailing == {"tometa", "chtimes", "tonode", "setmtime", "size", "propagate"}

\* RestoreRevision: the call of one of these steps fails
RrFails(u) ==
  /\ up.proc[u].pc \in RrFailing
  /\ up' = Compensated(up, u)
  /\ UNCHANGED scanVars

\* RestoreRevision, lines 277-280: the deferred function closes the lock file
RrReturn(u) ==
  /\ up.proc[u].pc \in {"restored", "failed"}
  /\ up' = [Unlocked(up, u) EXCEPT !.proc[u].pc = "unlink"]
  /\ UNCHANGED scanVars

\* RestoreRevision, line 279: os.Remove of the path of the lock file
RrRemoveLockfile(u) ==
  /\ up.proc[u].pc = "unlink"
  /\ up' = [up EXCEPT !.lockfile = 0, !.proc[u] = IdleUpload]
  /\ UNCHANGED scanVars

\* DeleteRevision, lines 378-383: getRevisionNode reads the node of the key
DrStart(u, t) ==
  /\ up.started < MaxUploads /\ up.proc[u].pc = "idle"
  /\ up' = [up EXCEPT !.started = @ + 1,
                      !.proc[u] = [IdleUpload EXCEPT !.pc = "remove", !.key = t,
                                                     !.n = up.node, !.old = up.revs[t]]]
  /\ UNCHANGED scanVars

\* DeleteRevision, lines 385-387: os.RemoveAll of the revision file
DrRemove(u) ==
  /\ up.proc[u].pc = "remove"
  /\ up' = [up EXCEPT !.proc[u].pc = "blob", !.revs[up.proc[u].key] = NoRevision]
  /\ UNCHANGED scanVars

\* DeleteRevision, line 389: DeleteBlob(n) deletes the blob with the blobid of n, the
\* node that getRevisionNode returned
DrDeleteBlob(u) ==
  /\ up.proc[u].pc = "blob"
  /\ up' = [up EXCEPT !.proc[u] = IdleUpload, !.blobs = @ \ {up.proc[u].n.xa.blobid}]
  /\ UNCHANGED scanVars

NextRev ==
  \/ \E u \in Uploads, b \in Blobs : UpStart(u, b)
  \/ \E u \in Uploads : UpLock(u)
  \/ \E u \in Uploads : CrOpen(u)
  \/ \E u \in Uploads : CrCopy(u)
  \/ \E u \in Uploads : CrCopyFails(u)
  \/ \E u \in Uploads : CrMeta(u)
  \/ \E u \in Uploads, gone \in BOOLEAN : UpExist(u, gone)
  \/ \E u \in Uploads, m \in {1, up.node.xa.mtime + 1} : UpFinish(u, m)
  \/ \E u \in Uploads : UpAbort(u)
  \/ \E u \in Uploads, t \in 1..(MaxUploads + 1) : RrStart(u, t)
  \/ \E u \in Uploads : RrLock(u)
  \/ \E u \in Uploads : RrCreate(u)
  \/ \E u \in Uploads : RrToRevision(u)
  \/ \E u \in Uploads : RrChtimes(u)
  \/ \E u \in Uploads : RrToNode(u)
  \/ \E u \in Uploads : RrSetMtime(u)
  \/ \E u \in Uploads : RrSize(u)
  \/ \E u \in Uploads : RrDrop(u)
  \/ \E u \in Uploads : RrPropagate(u)
  \/ \E u \in Uploads : RrFails(u)
  \/ \E u \in Uploads : RrReturn(u)
  \/ \E u \in Uploads : RrRemoveLockfile(u)
  \/ \E u \in Uploads, t \in 1..(MaxUploads + 1) : DrStart(u, t)
  \/ \E u \in Uploads : DrRemove(u)
  \/ \E u \in Uploads : DrDeleteBlob(u)

\* a node with its revisions, overwritten by concurrent uploads
SpecRev == Init /\ [][NextRev]_vars

\* ------------------------------------------------------------------ trashbin calls, statement by statement
\* the variables the calls of SpecApi leave alone
apiVars == <<fs, fwd, rev, pending, bg, ev, nid, ops, trash, tinfo, nkey, last, deb, wk, up>>

\* caller c starts a call
Called(c, op, key, rel, rp) ==
  [api EXCEPT !.calls = @ + 1,
              !.proc[c] = [IdleCall EXCEPT !.pc = op, !.op = op, !.key = key, !.rel = rel,
                                           !.rp = rp]]

\* a caller is refused
RefusedCall(op, rp, code) ==
  [api EXCEPT !.calls = @ + 1, !.refused = [op |-> op, rp |-> rp, code |-> code]]

\* Trashbin.MoveToTrash(n, path), line 149: a fresh key
TbMoveToTrash(c, n) ==
  /\ api.calls < MaxApiCalls /\ api.proc[c].pc = "idle"
  /\ n \in api.tree /\ n \notin api.used
  /\ api' = [Called(c, "MoveToTrash", n, "", NoPerms) EXCEPT !.used = @ \cup {n}]
  /\ UNCHANGED apiVars

\* MoveToTrash, lines 152-155: os.MkdirAll of .Trash/info
TbMkdirInfo(c) ==
  /\ api.proc[c].pc = "MoveToTrash"
  /\ api' = [api EXCEPT !.idir = TRUE, !.proc[c].pc = "mkdir"]
  /\ UNCHANGED apiVars

\* MoveToTrash, lines 156-159: os.MkdirAll of .Trash/files
TbMkdirFiles(c) ==
  /\ api.proc[c].pc = "mkdir"
  /\ api' = [api EXCEPT !.fdir = TRUE, !.proc[c].pc = "write"]
  /\ UNCHANGED apiVars

\* MoveToTrash, lines 161-166: writeInfoFile; os.WriteFile fails without the directory
TbWriteInfo(c) ==
  /\ api.proc[c].pc = "write"
  /\ api' = IF api.idir
            THEN [api EXCEPT !.info = @ \cup {api.proc[c].key}, !.proc[c].pc = "purge"]
            ELSE [api EXCEPT !.proc[c] = IdleCall]
  /\ UNCHANGED apiVars

\* MoveToTrash, lines 168-175: DeleteByPath and Purge
TbPurgeMetadata(c) ==
  /\ api.proc[c].pc = "purge"
  /\ api' = [api EXCEPT !.proc[c].pc = "rename"]
  /\ UNCHANGED apiVars

\* MoveToTrash, lines 177-178: os.Rename to .Trash/files/<key>.trashitem
TbRename(c) ==
  /\ api.proc[c].pc = "rename"
  /\ api' = IF api.fdir /\ api.proc[c].key \in api.tree
            THEN [api EXCEPT !.files = @ \cup {api.proc[c].key},
                             !.tree = @ \ {api.proc[c].key},
                             !.proc[c] = IdleCall]
            ELSE [api EXCEPT !.proc[c] = IdleCall]
  /\ UNCHANGED apiVars

\* Trashbin.RestoreRecycleItem(spaceID, key, relativePath, restoreRef), lines 262-274
TbRestore(c, k, rel) ==
  /\ api.calls < MaxApiCalls /\ api.proc[c].pc = "idle"
  /\ api' = Called(c, "RestoreRecycleItem", k, rel, NoPerms)
  /\ UNCHANGED apiVars

\* RestoreRecycleItem, lines 276-295: the trash item and the restore parent are
\* identified and parentid set on the trash item
TbIdentify(c) ==
  /\ api.proc[c].pc = "RestoreRecycleItem"
  /\ api' = IF api.proc[c].key \in api.files
            THEN [api EXCEPT !.proc[c].pc = "restore"]
            ELSE [api EXCEPT !.proc[c] = IdleCall]
  /\ UNCHANGED apiVars

\* RestoreRecycleItem, lines 297-305: os.Rename to the restore path, CacheID
TbRestoreRename(c) ==
  /\ api.proc[c].pc = "restore"
  /\ api' = IF api.proc[c].key \in api.files
            THEN [api EXCEPT !.files = @ \ {api.proc[c].key},
                             !.tree = @ \cup {api.proc[c].key},
                             !.proc[c].pc = "cleanup"]
            ELSE [api EXCEPT !.proc[c] = IdleCall]
  /\ UNCHANGED apiVars

\* RestoreRecycleItem, lines 307-312: the sidecar is removed for "." and "/"
TbCleanup(c) ==
  /\ api.proc[c].pc = "cleanup"
  /\ api' = IF api.proc[c].rel = "." \/ api.proc[c].rel = "/"
            THEN [api EXCEPT !.info = @ \ {api.proc[c].key}, !.proc[c] = IdleCall]
            ELSE [api EXCEPT !.proc[c] = IdleCall]
  /\ UNCHANGED apiVars

\* Trashbin.PurgeRecycleItem(ref, key, relativePath), lines 317-333
TbPurgeRecycleItem(c, rp, k, rel) ==
  /\ api.calls < MaxApiCalls /\ api.proc[c].pc = "idle"
  /\ api' = IF PurgeRecycleItemCheck(rp) # ""
            THEN RefusedCall("PurgeRecycleItem", rp, PurgeRecycleItemCheck(rp))
            ELSE Called(c, "PurgeRecycleItem", k, rel, rp)
  /\ UNCHANGED apiVars

\* PurgeRecycleItem, lines 335-338: os.RemoveAll of the trash item
TbRemoveItem(c) ==
  /\ api.proc[c].pc = "PurgeRecycleItem"
  /\ api' = [api EXCEPT !.files = @ \ {api.proc[c].key}, !.proc[c].pc = "sidecar"]
  /\ UNCHANGED apiVars

\* PurgeRecycleItem, lines 340-344: the cleaned relativePath is "." or "/"
TbRemoveInfo(c) ==
  /\ api.proc[c].pc = "sidecar"
  /\ api' = [api EXCEPT !.info = @ \ {api.proc[c].key}, !.proc[c] = IdleCall]
  /\ UNCHANGED apiVars

\* Trashbin.EmptyRecycle(ref), lines 349-365
TbEmptyRecycle(c, rp) ==
  /\ api.calls < MaxApiCalls /\ api.proc[c].pc = "idle"
  /\ api' = IF EmptyRecycleCheck(rp) # ""
            THEN RefusedCall("EmptyRecycle", rp, EmptyRecycleCheck(rp))
            ELSE Called(c, "EmptyRecycle", 0, "", rp)
  /\ UNCHANGED apiVars

\* EmptyRecycle, lines 367-370: os.RemoveAll of .Trash/files
TbRemoveFiles(c) ==
  /\ api.proc[c].pc = "EmptyRecycle"
  /\ api' = [api EXCEPT !.files = {}, !.fdir = FALSE, !.proc[c].pc = "infos"]
  /\ UNCHANGED apiVars

\* EmptyRecycle, line 371: os.RemoveAll of .Trash/info
TbRemoveInfos(c) ==
  /\ api.proc[c].pc = "infos"
  /\ api' = [api EXCEPT !.info = {}, !.idir = FALSE, !.proc[c] = IdleCall]
  /\ UNCHANGED apiVars

\* the step a call is at fails and the call returns its error
TbFails(c) ==
  /\ api.proc[c].pc # "idle"
  /\ api' = [api EXCEPT !.proc[c] = IdleCall]
  /\ UNCHANGED apiVars

\* ListRevisions, DownloadRevision, RestoreRevision, DeleteRevision: the permission
\* check at the start of the call
TbRevisionCall(op, rp) ==
  /\ api.calls < MaxApiCalls
  /\ api' = IF RevisionCheck(op, rp) # ""
            THEN RefusedCall(op, rp, RevisionCheck(op, rp))
            ELSE [api EXCEPT !.calls = @ + 1]
  /\ UNCHANGED apiVars

NextApi ==
  \/ \E c \in Callers, n \in Keys : TbMoveToTrash(c, n)
  \/ \E c \in Callers : TbMkdirInfo(c)
  \/ \E c \in Callers : TbMkdirFiles(c)
  \/ \E c \in Callers : TbWriteInfo(c)
  \/ \E c \in Callers : TbPurgeMetadata(c)
  \/ \E c \in Callers : TbRename(c)
  \/ \E c \in Callers, k \in Keys, rel \in RelSelf : TbRestore(c, k, rel)
  \/ \E c \in Callers : TbIdentify(c)
  \/ \E c \in Callers : TbRestoreRename(c)
  \/ \E c \in Callers : TbCleanup(c)
  \/ \E c \in Callers, rp \in TrashPerms, k \in Keys, rel \in RelSelf :
       TbPurgeRecycleItem(c, rp, k, rel)
  \/ \E c \in Callers : TbRemoveItem(c)
  \/ \E c \in Callers : TbRemoveInfo(c)
  \/ \E c \in Callers, rp \in TrashPerms : TbEmptyRecycle(c, rp)
  \/ \E c \in Callers : TbRemoveFiles(c)
  \/ \E c \in Callers : TbRemoveInfos(c)
  \/ \E c \in Callers : TbFails(c)
  \/ \E op \in RevisionCalls, rp \in NodePerms : TbRevisionCall(op, rp)

\* the trashbin and the permission checks of the revision calls
SpecApi == Init /\ [][NextApi]_vars

Quiescent == (\A p \in Paths : ~pending[p].on) /\ (\A t \in Tasks : bg[t] = 0)

\* ------------------------------------------------------------------ properties
Carries(p, i) == fs[p].ex /\ fs[p].xa.id = i
Resolves(i) == i \in DOMAIN fwd /\ Carries(fwd[i], i)

\* C2: at quiescence every cached id maps to an existing path that carries it, no
\* two paths carry the same id, and every path carrying an id is that id's cached path
C2_Bijection ==
  Quiescent =>
    /\ \A i \in DOMAIN fwd : Carries(fwd[i], i)
    /\ \A p \in Paths, q \in Paths :
         (p # q /\ fs[p].ex /\ fs[q].ex /\ fs[p].xa.id # NoId) => fs[p].xa.id # fs[q].xa.id
    /\ \A p \in Paths :
         (fs[p].ex /\ fs[p].xa.id # NoId) => (fs[p].xa.id \in DOMAIN fwd /\ fwd[fs[p].xa.id] = p)

\* C1: at quiescence, for every file or directory on disk and every id it was
\* assimilated with, the id cache resolves that id to a path that carries it
C1_IdStability ==
  Quiescent => \A p \in Paths : fs[p].ex => \A i \in fs[p].was : Resolves(i)

\* the xattrs of an entry that hold node metadata (all but the dirty flag)
Meta(xa) == [xa EXCEPT !.dirty = ""]

\* C5: after an operation that found an id clash (id cached for another path that
\* exists), the cache still maps the id to the first-seen path, the metadata of
\* that path is untouched and the newcomer no longer carries the id
C5_ClashKeepsFirst ==
  \A n \in 1..Len(last.log) :
    last.log[n].branch \in {"clash", "walkclash"} =>
      /\ last.log[n].id \in DOMAIN fwd
      /\ fwd[last.log[n].id] = last.log[n].prev
      /\ Meta(fs[last.log[n].prev].xa) = Meta(last.log[n].qxa)
      /\ fs[last.log[n].path].xa.id # last.log[n].id

\* the sum of the sizes of the files below a directory
RECURSIVE SumSizes(_)
SumSizes(ps) ==
  IF ps = {} THEN 0
  ELSE LET p == CHOOSE x \in ps : TRUE
       IN Size(fs[p].content) + SumSizes(ps \ {p})
FilesBelow(d) == {p \in FilePaths : fs[p].ex /\ Under(p, d)}

\* C3: at quiescence the treesize of every directory is the sum of the sizes of
\* the files below it
C3_TreeSize ==
  Quiescent => \A d \in DirPaths : fs[d].ex => fs[d].xa.treesize = SumSizes(FilesBelow(d))

\* the events the last operation published
Published == {n \in 1..Len(ev) : n > last.ev0}
MovedEvents(i, p) ==
  {n \in Published : ev[n].type = "ItemMoved" /\ ev[n].id = i /\ ev[n].path = p}
MoveRecords(i, p) ==
  {n \in 1..Len(last.log) :
     last.log[n].branch = "move" /\ last.log[n].id = i /\ last.log[n].path = p}

\* C6: after an operation in which assimilate found the cached path of an id gone
\* (a move to path p), p carries the id, the cache maps the id to p, the reverse
\* entry of the old path is removed, name and parentid are those of p, and the
\* operation published exactly one ItemMoved for it; an operation that found no
\* move published none
C6_MoveDetected ==
  /\ \A n \in 1..Len(last.log) :
       last.log[n].branch = "move" =>
         LET p == last.log[n].path
             i == last.log[n].id
         IN /\ Carries(p, i)
            /\ i \in DOMAIN fwd /\ fwd[i] = p
            /\ last.log[n].prev \notin DOMAIN rev
            /\ fs[p].xa.name = Base(p)
            /\ fs[p].xa.parentid = fs[Dir(p)].xa.id
            /\ fs[p].xa.parentid # NoId
  /\ \A p \in Paths, i \in 1..nid :
       Cardinality(MovedEvents(i, p)) = Cardinality(MoveRecords(i, p))

CreationTypes == {"ContainerCreated", "FileTouched", "UploadReady"}
CreationEvents(i) == {n \in 1..Len(ev) : ev[n].type \in CreationTypes /\ ev[n].id = i}

RoundTrip ==
  last.op = "restore" /\ last.direct /\ ~last.err /\ last.path = last.pre.path

InF(p) == {g \in 1..Len(deb.gor) : deb.gor[g].pc = "f" /\ deb.tm[deb.gor[g].t].path = p}

\* C8: two runs of f for the same path never execute at the same time
C8_NonOverlapping == \A p \in DebPaths : Cardinality(InF(p)) <= 1

\* C9 as stated: no two workers are inside assimilate calls for the same path
C9_NoConcurrentCalls ==
  \A p \in Paths : Cardinality({w \in Workers : InCall(wk, w, p)}) <= 1

PastLock(w, p) == wk.proc[w].pc \in {"identify", "body"} /\ wk.proc[w].at = p

\* C9: workers can be inside assimilate calls for the same path at the same time,
\* but at most one of them is past Lock(); the others wait for the lock
C9_OneCallPastLock ==
  \A p \in Paths : Cardinality({w \in Workers : PastLock(w, p)}) <= 1

C9_Witness ==
  \E p \in Paths, w \in Workers, v \in Workers :
    /\ w # v
    /\ PastLock(w, p)
    /\ wk.proc[v].pc = "lock" /\ wk.proc[v].at = p
    /\ wk.proc[w].top /\ ~wk.proc[v].top

PathEvents(p) == {n \in 1..Len(ev) : ev[n].type \in CreationTypes /\ ev[n].path = p}

\* C10: the metadata lock of a path has the one call past Lock() as its holder; a
\* call reads the id only while it holds the lock; an entry never gets a second id
\* or a second creation event; and once two calls that raced on an entry without id
\* have returned, the entry has one id and one creation event
C10_AssimilationLock ==
  /\ \A p \in Paths, w \in Workers : wk.lock[p] = w <=> PastLock(w, p)
  /\ \A p \in Paths : /\ Cardinality(fs[p].was) <= 1
                      /\ Cardinality(PathEvents(p)) <= 1
  /\ \A p \in wk.races :
       (\A w \in Workers : ~InCall(wk, w, p)) =>
          /\ Cardinality(fs[p].was) = 1
          /\ fs[p].xa.id \in fs[p].was
          /\ Cardinality(PathEvents(p)) = 1
          /\ Cardinality(CreationEvents(fs[p].xa.id)) = 1

C10_Witness ==
  \E p \in wk.races :
    /\ \A w \in Workers : ~InCall(wk, w, p)
    /\ Cardinality(PathEvents(p)) = 1

\* the runs of f that the timers of ts made
RunsOf(ts) == {n \in 1..Len(deb.runs) : deb.runs[n].t \in ts}

\* C11: when Debounce(b) finds a pending request a whose timer has not fired, a's
\* timer is stopped and never fires, b's timer is the one new timer, the run of f it
\* makes carries a.ForceRescan \/ b.ForceRescan and a.Recurse \/ b.Recurse, and f
\* runs at most once for the two requests
C11_DebounceMerge ==
  \A t \in 1..Len(deb.tm) :
    deb.tm[t].prev # 0 =>
      /\ ~deb.armed[deb.tm[t].prev]
      /\ \A g \in 1..Len(deb.gor) : deb.gor[g].t # deb.tm[t].prev
      /\ deb.tm[deb.tm[t].prev].path = deb.tm[t].path
      /\ deb.tm[t].pitem = deb.tm[deb.tm[t].prev].given
      /\ Cardinality(RunsOf({t, deb.tm[t].prev})) <= 1
      /\ \A n \in RunsOf({t}) :
           /\ deb.runs[n].force = (deb.tm[deb.tm[t].prev].given.force \/ deb.tm[t].given.force)
           /\ deb.runs[n].recurse =
                (deb.tm[deb.tm[t].prev].given.recurse \/ deb.tm[t].given.recurse)

C11_Witness ==
  \E t \in 1..Len(deb.tm) :
    /\ deb.tm[t].prev # 0
    /\ RunsOf({t}) # {}
    /\ deb.tm[deb.tm[t].prev].given.force /\ ~deb.tm[t].given.force
    /\ ~deb.tm[deb.tm[t].prev].given.recurse /\ deb.tm[t].given.recurse
    /\ \A g \in 1..Len(deb.gor) : deb.gor[g].pc = "done"

\* the requests for path p that wait for their timer or whose run of f has not
\* returned yet
Outstanding(p) ==
  {t \in 1..Len(deb.tm) :
     /\ deb.tm[t].path = p
     /\ \/ deb.armed[t]
        \/ \E g \in 1..Len(deb.gor) :
             deb.gor[g].t = t /\ deb.gor[g].pc \in {"check", "delete", "store", "f"}}

\* C12: InProgress(path) is true from the return of a Debounce call for the path to
\* the return of the run of f that serves it, and false for a path without pending
\* request and without active run
C12_InProgress ==
  \A p \in DebPaths :
    /\ Outstanding(p) # {} => DebInProgress(p)
    /\ (/\ \A t \in 1..Len(deb.tm) : deb.tm[t].path = p => ~deb.armed[t]
        /\ \A g \in 1..Len(deb.gor) :
             deb.tm[deb.gor[g].t].path = p => deb.gor[g].pc = "done")
         => ~DebInProgress(p)

\* C13: no thread holds the debouncer mutex while it executes f, and a thread that
\* waits for the mutex (f calling Debounce or InProgress among them) never waits
\* for itself or for a thread that is inside f or waits in turn
C13_MutexNotHeldInF ==
  \A th \in Threads :
    /\ deb.thr[th].pc = "f" => deb.mutex # th
    /\ deb.thr[th].pc = "lock" =>
         /\ deb.mutex # th
         /\ deb.mutex # 0 => deb.thr[deb.mutex].pc \in {"body", "unlock"}
    /\ deb.mutex = th <=> deb.thr[th].pc \in {"body", "unlock"}

C13_Witness ==
  \E th \in Threads, v \in Threads :
    /\ deb.thr[th].kind = "timer" /\ deb.thr[th].nest = 1 /\ deb.thr[th].pc = "body"
    /\ deb.thr[th].op = "debounce" /\ deb.thr[th].ret = "f"
    /\ deb.thr[v].pc = "lock"

\* the entry at p was assimilated at p and has not changed since: it carries an id
\* that an assimilation wrote there, the name of the path and the mtime of the file
Settled(p) ==
  /\ fs[p].ex /\ fs[p].xa.id # NoId /\ fs[p].xa.id \in fs[p].was
  /\ fs[p].xa.mtime = fs[p].mtime /\ fs[p].xa.name = Base(p)

\* the technical attributes of an entry
Technical(xa) ==
  <<xa.id, xa.parentid, xa.name, xa.blobid, xa.blobsize, xa.cs, xa.mtime>>

\* the cached path of an id and the cached id of a path ("-", -1: none)
CachedPair(f, r, i, p) ==
  <<IF i \in DOMAIN f THEN f[i] ELSE "-", IF p \in DOMAIN r THEN r[p] ELSE -1>>

\* the next step runs assimilate on p (as a scan item, a started goroutine, or from
\* a warmup walk)
Assimilates(p) ==
  /\ last'.op \in {"scan", "bg"}
  /\ \E n \in 1..Len(last'.log) : last'.log[n].path = p

\* C14: assimilate on an entry that was assimilated and has not changed since leaves
\* its id, parentid, name, blobid, blobsize, checksum and mtime attributes and its
\* id cache entries as they are and publishes no event for it
C14_Idempotent ==
  [][\A p \in Paths :
       Settled(p) /\ Assimilates(p) =>
         /\ Technical(fs'[p].xa) = Technical(fs[p].xa)
         /\ CachedPair(fwd', rev', fs[p].xa.id, p) = CachedPair(fwd, rev, fs[p].xa.id, p)
         /\ \A n \in (Len(ev) + 1)..Len(ev') : ev'[n].path # p /\ ev'[n].id # fs[p].xa.id]_vars

\* the id assimilate hands to updateFile for p: the id xattr of p (lines 420, 447,
\* 497) or a new one (line 476)
UpdateId(p) == IF fs[p].xa.id = NoId THEN nid ELSE fs[p].xa.id

\* the parent directory of p carries an id and p is linked to it
ParentLinked(st, p) ==
  st.fs[Dir(p)].xa.id # NoId /\ st.fs[p].xa.parentid = st.fs[Dir(p)].xa.id

\* r is the result of updateFile on p: the parent was assimilated during the call
ParentAssimilated(r, p) ==
  \E n \in 1..Len(r.st.log) : r.st.log[n].path = Dir(p)

\* r is the result of updateFile on p, called in the current state
ParentFirst(r, p) ==
  /\ r.ok => ParentLinked(r.st, p)
  /\ fs[Dir(p)].xa.id = NoId => ParentAssimilated(r, p)
  /\ r.st.fs[Dir(p)].xa.id = NoId => ~r.ok /\ r.st.fs[p].xa = fs[p].xa

\* C15: whenever a scan item is pending for an entry p below the space root, the
\* updateFile of its assimilation leaves, on success, the parent directory with an
\* id and p linked to it; it assimilates a parent that has no id before it goes on;
\* and it fails without writing an attribute on p when the parent has no id after that
C15_ParentFirst ==
  \A p \in Paths \ {Root} :
    pending[p].on /\ fs[p].ex => ParentFirst(updateFile(TreeState, p, UpdateId(p), 1), p)

\* the condition of lines 386-397 on the entry at p: it has an id, the cached path of
\* the id is p and the mtime attribute is the mtime of the file
FastCase(p) ==
  /\ fs[p].ex /\ fs[p].xa.id # NoId
  /\ GetCachedID(TreeState, fs[p].xa.id) = p
  /\ fs[p].xa.mtime = fs[p].mtime

\* an assimilation of p is due: a scan item is pending, or a goroutine was started
Due(p) == pending[p].on \/ bg[[kind |-> "assimilate", path |-> p]] > 0

\* r is the result of a call made in the current state: nil, and nothing but the
\* record of the call differs (no xattr, no cache entry, no event, no treesize, no
\* goroutine)
NothingChanged(r) == ~r.err /\ [r.st EXCEPT !.log = << >>] = TreeState

\* C16: assimilate on an entry with an id whose cached path is the path and whose
\* mtime attribute equals the mtime of the file returns nil and changes nothing
C16_FastPath ==
  \A p \in Paths : Due(p) /\ FastCase(p) => NothingChanged(assimilate(TreeState, p))

\* the last step worked a scan item of an entry and took the fast path
C16_Witness ==
  /\ last.op = "scan" /\ ~last.err /\ Len(last.log) = 1
  /\ last.log[1].branch = "fast" /\ last.log[1].path = last.path
  /\ last.path # Root /\ ~IsDirPath(last.path)
  /\ FastCase(last.path)

\* the pending entry of path after a Debounce of an item with the given flags
Scheduled(path, force, recurse) ==
  [on |-> TRUE, iforce |-> force, irecurse |-> recurse,
   force |-> force \/ (pending[path].on /\ pending[path].iforce),
   recurse |-> recurse \/ (pending[path].on /\ pending[path].irecurse)]

\* r is the result of Scan(p, ActionCreate, false) in the current state: the parent is
\* marked dirty and nothing else of the tree changes, a forced recursive rescan of the
\* parent is scheduled, and no entry of a third path changes
ParentRescan(r, p) ==
  /\ ~r.err
  /\ r.st = [TreeState EXCEPT !.fs[Dir(p)].xa.dirty = "true"]
  /\ r.pend[Dir(p)] = Scheduled(Dir(p), TRUE, TRUE)
  /\ \A q \in Paths \ {p, Dir(p)} : r.pend[q] = pending[q]

UpdateScheduled(r, p) ==
  /\ ~r.err
  /\ r.st = TreeState
  /\ r.pend = IF InProgress(pending, Dir(p)) THEN pending
              ELSE [pending EXCEPT ![p] = Scheduled(p, TRUE, FALSE)]

\* C18: in every state Scan(p, ActionUpdate, _) returns nil and leaves the tree as it
\* is; it schedules an assimilation of p (ForceRescan set) when InProgress(parent) is
\* false and changes nothing of the debouncer when it is true
C18_Update ==
  \A p \in Paths : \A isDir \in BOOLEAN :
    UpdateScheduled(Scan(TreeState, pending, p, "ActionUpdate", isDir), p)

\* the last step reported an update of a file in a directory below the root while
\* the directory was not in progress: the assimilation of the file is scheduled
C18_Witness ==
  /\ last.op \in {"write", "notify"} /\ ~last.err
  /\ Dir(last.path) # Root
  /\ pending[last.path].on /\ pending[last.path].iforce /\ ~pending[last.path].irecurse
  /\ ~pending[Dir(last.path)].on

\* the last step reported an update of a file while its parent was in progress: no
\* assimilation of the file is scheduled
C18_WitnessSkipped ==
  /\ last.op \in {"write", "notify"} /\ ~last.err
  /\ ~pending[last.path].on /\ pending[Dir(last.path)].on

\* the tree after the entry at p has been removed out-of-band
Removed(p) == Touch([TreeState EXCEPT !.fs[p] = NoEntry], Dir(p))

\* the entry at p can be removed: it exists and nothing exists below it
Removable(p) == fs[p].ex /\ \A c \in Paths : Dir(c) = p => ~fs[c].ex

\* the id cache of st holds nothing for the path p and the id i
Uncached(st, p, i) ==
  p \notin DOMAIN st.rev /\ (i \in DOMAIN st.fwd => st.fwd[i] # p)

\* r is the result of Scan(p, ActionDelete, _) after the removal of p, whose id was i:
\* the cache entry is removed, no metadata is left, one ItemTrashed event is
\* published, and a forced recursive rescan of the parent is scheduled
Trashed(r, p, i) ==
  /\ ~r.err /\ i # NoId
  /\ Uncached(r.st, p, i)
  /\ r.st.fs[p].xa = NoXa
  /\ r.st.ev = Append(ev, [type |-> "ItemTrashed", id |-> i, path |-> p])
  /\ r.pend = [pending EXCEPT ![Dir(p)] = Scheduled(Dir(p), TRUE, TRUE)]

\* the entry at p carries an id that an assimilation wrote to it
Known(p) == fs[p].xa.id # NoId /\ fs[p].xa.id \in fs[p].was

\* C19: whenever an entry that carries the id of its assimilation is removed, Scan(p,
\* ActionDelete, _) removes the cache entry of the path, leaves no metadata of it,
\* publishes one ItemTrashed event for its id and then schedules a forced recursive
\* rescan of the parent directory
C19_Delete ==
  \A p \in Paths \ {Root} :
    Removable(p) /\ Known(p) =>
      Trashed(Scan(Removed(p), pending, p, "ActionDelete", IsDirPath(p)), p, fs[p].xa.id)

\* the attributes CreateRevision copies
BlobMetadata(xa) == <<xa.cs, xa.type, xa.blobid, xa.blobsize, xa.mtime>>

\* CreateRevision(n, t) of upload u returns successfully in this step
CreateRevisionReturns(u) ==
  up.proc[u].pc = "meta" /\ up'.proc[u].pc = "returned"

\* C20: when CreateRevision(n, t) returns successfully, the revision file of t
\* exists with the content n had at the call, carries the checksum, type, blobid,
\* blobsize and mtime attributes n had at the call, and the node is as it was
C20_RevisionAtomicity ==
  [][\A u \in Uploads :
       CreateRevisionReturns(u) =>
         /\ up'.revs[up.proc[u].t].ex
         /\ up'.revs[up.proc[u].t].content = up.proc[u].n.content
         /\ BlobMetadata(up'.revs[up.proc[u].t].xa) = BlobMetadata(up.proc[u].n.xa)
         /\ up'.node = up.proc[u].n]_vars

\* CreateRevision has returned for a blob of more than one chunk that an earlier
\* upload wrote, while another upload waits for the lock of the node
C20_Witness ==
  \E u \in Uploads : \E v \in Uploads \ {u} :
    /\ up.proc[u].pc = "returned" /\ up.proc[v].pc = "lock"
    /\ Len(up.proc[u].n.content) > 1 /\ up.proc[u].n.xa.blobid > 1
    /\ up.revs[up.proc[u].t].content = up.proc[u].n.content

\* the blob attributes RestoreRevision copies from the restored revision to the node
RestoredMetadata(xa) == <<xa.cs, xa.type, xa.blobid, xa.blobsize>>

\* C21: when RestoreRevision(key) of an existing revision has succeeded, the revision
\* keyed by the mtime the node had before the restore holds the content and the blob
\* attributes the node had before the restore, the node holds the content, blobid,
\* blobsize and checksums of the restored revision and the restore time as its mtime,
\* and the restored revision no longer exists
C21_RestoreRevision ==
  \A u \in Uploads :
    (/\ up.proc[u].pc = "restored"
     /\ up.proc[u].old.ex /\ up.proc[u].key # up.proc[u].t) =>
      /\ up.revs[up.proc[u].t].ex
      /\ up.revs[up.proc[u].t].content = up.proc[u].n.content
      /\ BlobMetadata(up.revs[up.proc[u].t].xa) = BlobMetadata(up.proc[u].n.xa)
      /\ up.node.content = up.proc[u].old.content
      /\ RestoredMetadata(up.node.xa) = RestoredMetadata(up.proc[u].old.xa)
      /\ up.node.xa.mtime = up.proc[u].n.xa.mtime + 1
      /\ ~up.revs[up.proc[u].key].ex

C23_RevisionExists ==
  [][\A u \in Uploads :
       (/\ up.proc[u].pc = "open" /\ up'.proc[u].pc # "open"
        /\ up.revs[up.proc[u].t].ex)
         => /\ up'.proc[u].pc = "exist"
            /\ up'.revs = up.revs
            /\ up'.node = up.node]_vars

\* CreateRevision has found the revision file of its timestamp, with content
C23_Witness ==
  \E u \in Uploads :
    /\ up.proc[u].pc = "exist"
    /\ up.revs[up.proc[u].t].ex /\ up.revs[up.proc[u].t].content # << >>

\* DeleteRevision of call u, for a revision that existed at the call, takes a step
DeleteRevisionStep(u) ==
  /\ up.proc[u].pc \in {"remove", "blob"} /\ up'.proc[u] # up.proc[u]
  /\ up.proc[u].old.ex

\* C24: DeleteRevision(key) removes the file and the blob of the revision of the key
\* only: the node, its blob and every other revision stay as they are
C24_DeleteRevisionFrame ==
  [][\A u \in Uploads :
       DeleteRevisionStep(u) =>
         /\ up'.node = up.node
         /\ \A t \in DOMAIN up.revs : t # up.proc[u].key => up'.revs[t] = up.revs[t]
         /\ up.blobs \ {up.proc[u].old.xa.blobid} \subseteq up'.blobs]_vars

\* a call of PurgeRecycleItem or EmptyRecycle has passed the permission check
Admitted(c) == api.proc[c].op \in {"PurgeRecycleItem", "EmptyRecycle"}

\* C25: PurgeRecycleItem and EmptyRecycle refuse a caller without the PurgeRecycle
\* permission, with PermissionDenied if the caller has Stat and NotFound otherwise,
\* and the refused call removes nothing from the trash
C25_PurgePermission ==
  /\ \A c \in Callers : Admitted(c) => api.proc[c].rp.PurgeRecycle
  /\ api.refused.op \in {"PurgeRecycleItem", "EmptyRecycle"} =>
       api.refused.code = Refused(api.refused.rp)

\* C26: ListRevisions, DownloadRevision, RestoreRevision and DeleteRevision answer a
\* caller without the permission with PermissionDenied only if the caller has Stat,
\* and with NotFound without Stat
C26_NoExistenceLeak ==
  api.refused.op \in RevisionCalls =>
    /\ api.refused.code = "PermissionDenied" => api.refused.rp.Stat
    /\ ~api.refused.rp.Stat => api.refused.code = "NotFound"

\* C29: every files/<key>.trashitem has its info/<key>.trashinfo, in every state of
\* concurrent MoveToTrash, RestoreRecycleItem, PurgeRecycleItem and EmptyRecycle
\* calls whose steps can fail
C29_SidecarPairing == api.files \subseteq api.info

\* the result r of RestoreRecycleItem of an item with the given id to path p: the
\* node is at p under the id of the directory of p, and the id cache maps its id to p
RestoredUnder(r, id, p) ==
  ~r.err =>
    /\ r.st.fs[p].ex
    /\ r.st.fs[p].xa.id = id
    /\ r.st.fs[p].xa.parentid = IdentifyPath(TreeState, Dir(p))
    /\ id # NoId => HasCachedID(r.st, id) /\ GetCachedID(r.st, id) = p

\* the result r of RestoreRecycleItem to path p when the directory of p has no id:
\* the call fails, and the tree, the trash and its sidecars are as before
RestoreRefused(r, p) ==
  (Exists(TreeState, Dir(p)) /\ IdentifyPath(TreeState, Dir(p)) = NoId) =>
    /\ r.err
    /\ r.st = TreeState /\ r.tr = trash /\ r.ti = tinfo

SidecarRemoved(r, k) == ~r.err => k \notin DOMAIN r.ti

\* C28: RestoreRecycleItem of a whole trash item, for every relativePath that denotes
\* the item itself, removes info/<key>.trashinfo
C28_SidecarRemoved ==
  \A k \in DOMAIN trash, rel \in RelSelf, p \in FilePaths :
    SidecarRemoved(RestoreRecycleItem(TreeState, trash, tinfo, k, rel, p), k)

\* the walk f, in which a step failed for path p, visited every entry that the walk g
\* without the failure visited outside p, and collected the same sizes when p is a file
Continues(f, g, p) ==
  /\ \A q \in g.seen : ~Under(q, p) => q \in f.seen
  /\ ~IsDirPath(p) => f.sizes = g.sizes

\* C30: a failure of one step for one entry of the walk of WarmupIDCache (assimilate,
\* reading or clearing the dirty flag, scoping the space, caching the id) does not
\* stop the walk: the remaining entries are visited and their sizes collected
C30_WalkContinues ==
  \A root \in DirPaths, doAssimilate \in BOOLEAN, onlyDirty \in BOOLEAN :
    \A p \in Paths, step \in WalkSteps :
      (Exists(TreeState, root) /\ Exists(TreeState, p) /\ Under(p, root)) =>
        Continues(WarmupWalk(TreeState, root, doAssimilate, onlyDirty,
                             [path |-> p, step |-> step]),
                  WarmupWalk(TreeState, root, doAssimilate, onlyDirty, NoFailure), p)

\* call u of RestoreRevision is between taking the lock of the lock file and closing it
InRestore(u) ==
  up.proc[u].pc \in {"create", "tometa", "chtimes", "tonode", "setmtime", "size", "drop",
                     "propagate", "restored", "failed"}

\* C31: two RestoreRevision calls on the node are never both between taking and
\* releasing the lock of the node's lock file, whatever other callers open the lock
\* file and although RestoreRevision removes the path of the lock file after closing it
C31_LockExclusion ==
  \A u \in Uploads : \A v \in Uploads \ {u} : ~(InRestore(u) /\ InRestore(v))

\* C35: the step of RestoreRevision that propagates changes the treesize of the
\* ancestor by the blobsize of the restored revision less the blobsize the node had
\* when its attributes were replaced
C35_RestoreSizeDiff ==
  [][\A u \in Uploads :
       (up.proc[u].pc = "propagate" /\ up'.proc[u].pc = "restored")
         => up'.treesize - up.treesize = up.proc[u].rsize - up.proc[u].was]_vars

\* call u, a RestoreRevision that has the lock, takes the step
RestoreStep(u) == InRestore(u) /\ up'.proc[u].pc # up.proc[u].pc

\* C39: no step of RestoreRevision removes or alters a revision that exists, other
\* than the restored one and the new one it has created, and the step that creates the
\* new revision alters no other revision and keeps the content of the restored one
C39_RestoreFrame ==
  [][\A u \in Uploads : \A t \in 1..(MaxUploads + 1) :
       (RestoreStep(u) /\ up.revs[t].ex)
         => /\ t \notin {up.proc[u].key, up.proc[u].t} => up'.revs[t] = up.revs[t]
            /\ (up.proc[u].pc = "create" /\ t # up.proc[u].key)
                 => up'.revs[t] = up.revs[t]
            /\ (up.proc[u].pc = "create" /\ t = up.proc[u].key)
                 => up'.revs[t].content = up.revs[t].content]_vars

\* the directory d of the tree r has the sum of the sizes of the files below it as
\* its treesize
SizedAfter(r, d) == r.fs[d].xa.treesize = SumSizes(FilesBelow(d))

\* the directories for which the walk w of a warmup collected a size
Sized(w) == {d \in DirPaths : d \in DOMAIN w.sizes}

\* C33: the treesize that WarmupIDCache(root, assimilate, onlyDirty=true) writes for
\* root and for each directory it visited (and that has an id) is the sum of the sizes
\* of all files below that directory, the files inside the pruned clean subtrees
\* included
C33_DirtyOnlySizes ==
  \A root \in DirPaths, doAssimilate \in BOOLEAN :
    Exists(TreeState, root) =>
      \A d \in Sized(WarmupWalk(TreeState, root, doAssimilate, TRUE, NoFailure)) :
        IDsForPath(WarmupIDCache(TreeState, root, doAssimilate, TRUE), d) # NoId
          => SizedAfter(WarmupIDCache(TreeState, root, doAssimilate, TRUE), d)

\* the treesize of the space root changed from the tree st to the tree r as much as
\* the treesize of root did
PropagatedAbove(st, r, root) ==
  (root # Root /\ st.fs[root].xa.treesize # -1 /\ st.fs[Root].xa.treesize # -1)
    => r.fs[Root].xa.treesize - st.fs[Root].xa.treesize
         = r.fs[root].xa.treesize - st.fs[root].xa.treesize

\* C34: after WarmupIDCache(root, assimilate, onlyDirty=false) every directory of the
\* walked subtree that has an id, root and the directories without files below them
\* included, has the sum of the sizes of the files below it as its treesize, and the
\* change of the treesize of root has been propagated to its ancestor
C34_FullWalkSizes ==
  \A root \in DirPaths, doAssimilate \in BOOLEAN :
    Exists(TreeState, root) =>
      /\ \A d \in DirPaths :
           (Exists(TreeState, d) /\ Under(d, root)
              /\ IDsForPath(WarmupIDCache(TreeState, root, doAssimilate, FALSE), d) # NoId)
             => SizedAfter(WarmupIDCache(TreeState, root, doAssimilate, FALSE), d)
      /\ PropagatedAbove(TreeState, WarmupIDCache(TreeState, root, doAssimilate, FALSE),
                         root)

\* the OR of the flags of the requests that were coalesced into timer t of the
\* debouncer d: the request of t and those of the timers that were stopped for it
RECURSIVE Coalesced(_, _)
Coalesced(d, t) ==
  IF t = 0 THEN [force |-> FALSE, recurse |-> FALSE]
  ELSE [force |-> d.tm[t].given.force \/ Coalesced(d, d.tm[t].prev).force,
        recurse |-> d.tm[t].given.recurse \/ Coalesced(d, d.tm[t].prev).recurse]

\* the flags that the closure of timer t carries into its run of f
ClosureFlags(d, t) == [force |-> d.tm[t].force, recurse |-> d.tm[t].recurse]

\* C36: for a delay > 0, the timer that a further Debounce call for a path makes
\* while requests for the path are pending (one, two or more coalesced calls whose
\* timer has not fired) carries the OR of the flags of all coalesced requests into
\* the run of f
C36_MergeAll ==
  \A p \in DebPaths, force \in BOOLEAN, recurse \in BOOLEAN :
    Stopped(deb, p) # 0 =>
      ClosureFlags(Debounced(deb, p, force, recurse), Len(deb.tm) + 1)
        = Coalesced(Debounced(deb, p, force, recurse), Len(deb.tm) + 1)

\* a run of f for the path of request t has started after the call of request t and
\* carries the flags the request set
Served(t) ==
  \E n \in 1..Len(deb.runs) :
    /\ t <= Len(deb.tm)
    /\ deb.runs[n].path = deb.tm[t].path
    /\ deb.calls[n] >= t
    /\ deb.tm[t].given.force => deb.runs[n].force
    /\ deb.tm[t].given.recurse => deb.runs[n].recurse

\* the callbacks that the model lets the timers start have all been started
Exhausted == Len(deb.gor) = MaxFires

\* C37: for a delay > 0, when f terminates and the Debounce calls stop, every
\* Debounce(item) is eventually followed by a run of f for the path of the item that
\* starts after the call and carries the flags the item set, and in the end no path
\* is pending or in progress
C37_DebounceLiveness ==
  /\ \A t \in 1..MaxCalls : (t <= Len(deb.tm)) ~> (Exhausted \/ Served(t))
  /\ <>[](Exhausted \/ \A p \in DebPaths : ~DebInProgress(p))

\* the directory d has a change that no walk has seen: Scan marked it dirty as a new
\* directory, or for a new file in it, and no callback of a walk has run for that entry
Unseen(d) ==
  \/ d # Root /\ d \notin wk.visited
  \/ \E c \in FilePaths : Dir(c) = d /\ fs[c].ex /\ c \notin wk.visited

\* C38: when no walk of WarmupIDCache is running, a directory that Scan marked dirty
\* for a change that no walk has seen is still dirty
C38_DirtyKept ==
  (\A w \in Workers : wk.proc[w].pc = "idle")
    => \A d \in DirPaths : (fs[d].ex /\ Unseen(d)) => isDirty(TreeState, d)

\* the last operation was the run of the goroutine that re-assimilates path p
ReRun(p) ==
  /\ last.op = "bg" /\ last.path = p
  /\ last.log # << >> /\ last.log[1].branch # "walkclash"

\* what is left to do for the id clash of p: the re-assimilations that have been
\* started and have not run, and the clashing id that p carries
ClashWork(p) ==
  2 * bg[[kind |-> "assimilate", path |-> p]]
    + (IF fs[p].ex /\ walkClash(TreeState, p) THEN 1 ELSE 0)

\* C40: every run of the re-assimilation that was started for an id clash on a path
\* brings the path closer to a fresh id: it takes the clashing id from the path or
\* leaves fewer re-assimilations to run, also when purging the metadata fails, so
\* that after a bounded number of runs none is left
C40_ClashTerminates ==
  [][\A p \in Paths : ReRun(p)' => ClashWork(p)' < ClashWork(p)]_vars

\* the blobsize, checksum and mtime attributes of the file p match the file on disk
InSync(p) ==
  /\ fs[p].xa.blobsize = Size(fs[p].content)
  /\ fs[p].xa.cs = Checksum(fs[p].content)
  /\ fs[p].xa.mtime = fs[p].mtime

\* C32: once all scans have drained, the blobsize, checksum and mtime attributes of
\* every assimilated file match the file on disk, whether the update of a changed file
\* was scheduled for the file or left to the rescan of its parent
C32_Repaired ==
  Quiescent => \A p \in FilePaths : (fs[p].ex /\ fs[p].xa.id # NoId) => InSync(p)

====
